---------------------------- MODULE Spec2Model ----------------------------
(***************************************************************************)
(* wp-to-mdx: the content transformation pipeline.                         *)
(*                                                                         *)
(*   ConvertHTMLToMarkdown      src/markdown.go        (rule functions)    *)
(*   processYouTubeShortcodes   src/markdown.go        (bracket pass)      *)
(*   PostProcessMarkdownLines   src/postprocessing.go  (line pass)         *)
(*                                                                         *)
(* Go strings are TLA+ strings; positions are 1-based, 0 means "absent"    *)
(* (Go: 0-based, -1).  A Go string literal "\\[youtube\\]" and the TLA+    *)
(* string "\\[youtube\\]" denote the same eleven characters.               *)
(***************************************************************************)
EXTENDS Integers, Sequences, FiniteSets, TLC

(***************************************************************************)
(* Bounds of the model.                                                    *)
(***************************************************************************)
\* number of fragments a text handed to processYouTubeShortcodes is built of
MaxFrags == 3
\* number of lines of a document handed to PostProcessMarkdownLines
MaxLines == 2
\* number of URLs the gallery lookup returns
MaxURLs == 2
\* number of HTML nodes of a document handed to ConvertHTMLToMarkdown
MaxNodes == 2
\* the elements of the ID list parseGalleryIDs is called on: at most
MaxIDs == 3
\* the tags of a post: at most
MaxTags == 2
\* the posts processContent is called on: at most
MaxPosts == 2
\* the concurrent calls of the pipeline
NumCalls == 2
MaxChildren == 2

(***************************************************************************)
(* Package strings.  The operators are total on strings; each one hands its *)
(* arguments to a function of the same name (suffix F), which computes the *)
(* result from the argument values.                                        *)
(***************************************************************************)
Min(S) == CHOOSE m \in S : \A n \in S : m <= n

\* s[i-1 : j] of Go, empty when the range is empty
SubF[s \in STRING, i \in Int, j \in Int] == IF i > j THEN "" ELSE SubSeq(s, i, j)
Sub(s, i, j) == SubF[s, i, j]

\* s[i-1:] of Go
FromF[s \in STRING, i \in Int] == SubF[s, i, Len(s)]
From(s, i) == FromF[s, i]

\* does p occur in s at position i
HasAtF[s \in STRING, i \in Int, p \in STRING] ==
    /\ i >= 1
    /\ i + Len(p) - 1 <= Len(s)
    /\ SubF[s, i, i + Len(p) - 1] = p
HasAt(s, i, p) == HasAtF[s, i, p]

HasPrefix(s, p) == HasAtF[s, 1, p]

\* strings.Index: the first position of p in s, 0 when there is none
IndexF[s \in STRING, p \in STRING] ==
    LET hits == {i \in 1..(Len(s) + 1) : HasAtF[s, i, p]}
    IN  IF hits = {} THEN 0 ELSE Min(hits)
Index(s, p) == IndexF[s, p]

Contains(s, p) == IndexF[s, p] # 0

TrimPrefixF[s \in STRING, p \in STRING] ==
    IF HasAtF[s, 1, p] THEN FromF[s, Len(p) + 1] ELSE s
\* variant: cuts len(p) characters whether or not s begins with p
TrimPrefix_ByLength(s, p) == FromF[s, Len(p) + 1]
\* variant: never cuts
TrimPrefix_Keep(s, p) == s
TrimPrefix(s, p) == TrimPrefixF[s, p]

\* strings.ReplaceAll: non-overlapping occurrences, left to right; an empty
\* old matches before every character and at the end
ReplaceAllF[s \in STRING, old \in STRING, new \in STRING] ==
    IF old = ""
    THEN IF s = "" THEN new
         ELSE new \o SubF[s, 1, 1] \o ReplaceAllF[FromF[s, 2], old, new]
    ELSE LET i == IndexF[s, old]
         IN  IF i = 0 THEN s
             ELSE SubF[s, 1, i - 1] \o new
                    \o ReplaceAllF[FromF[s, i + Len(old)], old, new]
ReplaceAll(s, old, new) == ReplaceAllF[s, old, new]

\* strings.Split with a non-empty separator
SplitF[s \in STRING, sep \in STRING] ==
    LET i == IndexF[s, sep]
    IN  IF i = 0 THEN <<s>>
        ELSE <<SubF[s, 1, i - 1]>> \o SplitF[FromF[s, i + Len(sep)], sep]
Split(s, sep) == SplitF[s, sep]

\* strings.SplitN(s, sep, 2)
SplitN2F[s \in STRING, sep \in STRING] ==
    LET i == IndexF[s, sep]
    IN  IF i = 0 THEN <<s>>
        ELSE <<SubF[s, 1, i - 1], FromF[s, i + Len(sep)]>>
SplitN2(s, sep) == SplitN2F[s, sep]

RECURSIVE Join(_, _)
Join(parts, sep) ==
    IF parts = <<>> THEN ""
    ELSE IF Len(parts) = 1 THEN parts[1]
    ELSE parts[1] \o sep \o Join(Tail(parts), sep)

\* the white space of regexp's \s; strings.TrimSpace trims these too (its
\* further Unicode spaces do not occur in the texts of the model)
IsSpace(c) == c \in {" ", "\t", "\n", "\r", "\f"}

TrimLeftF[s \in STRING] ==
    IF s # "" /\ IsSpace(SubF[s, 1, 1]) THEN TrimLeftF[FromF[s, 2]] ELSE s

TrimRightF[s \in STRING] ==
    IF s # "" /\ IsSpace(SubF[s, Len(s), Len(s)])
    THEN TrimRightF[SubF[s, 1, Len(s) - 1]] ELSE s

TrimSpace(s) == TrimRightF[TrimLeftF[s]]

\* the length of the longest run of white space, of characters other than
\* the double quote, of digits, that starts at position i of s
SpaceRun[s \in STRING, i \in Int] ==
    IF i <= Len(s) /\ IsSpace(SubF[s, i, i]) THEN 1 + SpaceRun[s, i + 1] ELSE 0

NonQuoteRun[s \in STRING, i \in Int] ==
    IF i <= Len(s) /\ SubF[s, i, i] # "\"" THEN 1 + NonQuoteRun[s, i + 1] ELSE 0

IsDigit(c) == c \in {"0", "1", "2", "3", "4", "5", "6", "7", "8", "9"}

DigitRun[s \in STRING, i \in Int] ==
    IF i <= Len(s) /\ IsDigit(SubF[s, i, i]) THEN 1 + DigitRun[s, i + 1] ELSE 0

\* the elements of a sequence
Range(q) == {q[k] : k \in DOMAIN q}

RECURSIVE Concat(_)
Concat(parts) == IF parts = <<>> THEN "" ELSE parts[1] \o Concat(Tail(parts))

\* all sequences over S of length at most n
RECURSIVE SeqsUpTo(_, _)
SeqsUpTo(S, n) ==
    IF n = 0 THEN {<<>>}
    ELSE LET shorter == SeqsUpTo(S, n - 1)
         IN  shorter \cup {Append(q, e) : q \in {r \in shorter : Len(r) = n - 1}, e \in S}

(***************************************************************************)
(* extractYouTubeVideoID (markdown.go).                                    *)
(***************************************************************************)
extractYouTubeVideoIDF[url \in STRING] ==
    IF Contains(url, "youtu.be/")
    THEN Split(Split(Split(url, "youtu.be/")[2], "?")[1], "&")[1]
    ELSE IF Contains(url, "youtube.com/watch?v=") /\ Len(Split(url, "v=")) > 1
    THEN Split(Split(url, "v=")[2], "&")[1]
    ELSE ""
\* variant: the youtu.be form keeps its query suffix
extractYouTubeVideoID_KeepQuery(url) ==
    IF Contains(url, "youtu.be/")
    THEN Split(Split(url, "youtu.be/")[2], "&")[1]
    ELSE extractYouTubeVideoIDF[url]
extractYouTubeVideoID(url) == extractYouTubeVideoIDF[url]

startTag == "\\[youtube\\]"
endTag == "\\[/youtube\\]"

(***************************************************************************)
(* The regular expressions of postprocessing.go.  Each is matched the way  *)
(* regexp does: leftmost start, and from a start the pieces in order (a    *)
(* greedy \s+, \s*, \d+ or [^"]+ is followed by a character outside its    *)
(* class, so it takes its whole run).                                      *)
(***************************************************************************)
\* audioRe anchored at position i: the mp3 URL, "" when it does not match
AudioAt[s \in STRING, i \in Int] ==
    LET b == i + 6 + SpaceRun[s, i + 6]
        c == b + 5
        d == c + NonQuoteRun[s, c]
        e == d + 2 + SpaceRun[s, d + 2]
    IN  IF /\ HasAt(s, i, "[audio")
           /\ b > i + 6
           /\ HasAt(s, b, "mp3=\"")
           /\ d > c
           /\ HasAt(s, d, "\"]")
           /\ HasAt(s, e, "[/audio]")
        THEN Sub(s, c, d - 1)
        ELSE ""

\* audioRe.FindStringSubmatch(line): <<m[1]>>, or <<>> for nil
audioRe(line) ==
    LET hits == {i \in 1..Len(line) : AudioAt[line, i] # ""}
    IN  IF hits = {} THEN <<>> ELSE <<AudioAt[line, Min(hits)]>>

\* videoRe anchored at position i: <<width, height, mp4 URL>>, or <<>>
VideoAt[s \in STRING, i \in Int] ==
    LET b == i + 6 + SpaceRun[s, i + 6]
        w1 == b + 7
        w2 == w1 + DigitRun[s, w1]
        g == w2 + 1 + SpaceRun[s, w2 + 1]
        h1 == g + 8
        h2 == h1 + DigitRun[s, h1]
        m == h2 + 1 + SpaceRun[s, h2 + 1]
        c == m + 5
        d == c + NonQuoteRun[s, c]
        e == d + 2 + SpaceRun[s, d + 2]
    IN  IF /\ HasAt(s, i, "[video")
           /\ b > i + 6
           /\ HasAt(s, b, "width=\"")
           /\ w2 > w1
           /\ HasAt(s, w2, "\"")
           /\ g > w2 + 1
           /\ HasAt(s, g, "height=\"")
           /\ h2 > h1
           /\ HasAt(s, h2, "\"")
           /\ m > h2 + 1
           /\ HasAt(s, m, "mp4=\"")
           /\ d > c
           /\ HasAt(s, d, "\"]")
           /\ HasAt(s, e, "[/video]")
        THEN <<Sub(s, w1, w2 - 1), Sub(s, h1, h2 - 1), Sub(s, c, d - 1)>>
        ELSE <<>>

\* videoRe.FindStringSubmatch(line): <<m[1], m[2], m[3]>>, or <<>> for nil
videoRe(line) ==
    LET hits == {i \in 1..Len(line) : VideoAt[line, i] # <<>>}
    IN  IF hits = {} THEN <<>> ELSE VideoAt[line, Min(hits)]

\* the pattern ids="[^"]+" anchored at position p
IdsAt[s \in STRING, p \in Int] ==
    /\ HasAt(s, p, "ids=\"")
    /\ NonQuoteRun[s, p + 5] > 0
    /\ HasAt(s, p + 5 + NonQuoteRun[s, p + 5], "\"")

\* galleryRe.MatchString(line): \[gallery\s+.*?ids="[^"]+".*?\]
galleryReF[line \in STRING] ==
    \E i \in 1..Len(line) :
        /\ HasAt(line, i, "[gallery")
        /\ SpaceRun[line, i + 8] > 0
        /\ \E p \in (i + 9)..Len(line) :
            /\ IdsAt[line, p]
            /\ \E q \in (p + 6 + NonQuoteRun[line, p + 5])..Len(line) :
                   Sub(line, q, q) = "]"
galleryRe(line) == galleryReF[line]

(***************************************************************************)
(* parseGalleryIDs (postprocessing.go).                                    *)
(***************************************************************************)
DigitValue(c) ==
    CASE c = "0" -> 0 [] c = "1" -> 1 [] c = "2" -> 2 [] c = "3" -> 3
      [] c = "4" -> 4 [] c = "5" -> 5 [] c = "6" -> 6 [] c = "7" -> 7
      [] c = "8" -> 8 [] c = "9" -> 9

\* the value of a string of decimal digits
Decimal[s \in STRING] ==
    IF s = "" THEN 0
    ELSE 10 * Decimal[Sub(s, 1, Len(s) - 1)] + DigitValue(Sub(s, Len(s), Len(s)))

\* variant: no sign accepted
Atoi_Unsigned(s) ==
    IF s = "" \/ DigitRun[s, 1] # Len(s)
    THEN [err |-> TRUE, n |-> 0]
    ELSE [err |-> FALSE, n |-> Decimal[s]]
\* strconv.Atoi: an optional sign and at least one digit (the numbers of the
\* model are far below the range of int)
Atoi(s) ==
    LET signed == s # "" /\ Sub(s, 1, 1) \in {"+", "-"}
        digits == IF signed THEN From(s, 2) ELSE s
    IN  IF digits = "" \/ DigitRun[digits, 1] # Len(digits)
        THEN [err |-> TRUE, n |-> 0]
        ELSE [err |-> FALSE,
              n |-> IF signed /\ Sub(s, 1, 1) = "-"
                    THEN 0 - Decimal[digits] ELSE Decimal[digits]]

RECURSIVE AtoiAll(_)
AtoiAll(parts) ==
    IF parts = <<>> THEN [err |-> FALSE, ids |-> <<>>]
    ELSE LET id == Atoi(TrimSpace(parts[1]))
             more == AtoiAll(Tail(parts))
         IN  IF id.err \/ more.err THEN [err |-> TRUE, ids |-> <<>>]
             ELSE [err |-> FALSE, ids |-> <<id.n>> \o more.ids]

parseGalleryIDsF[s \in STRING] ==
    LET hits == {p \in 1..Len(s) : IdsAt[s, p]}
        p == Min(hits)
    IN  IF hits = {} THEN [err |-> TRUE, ids |-> <<>>]
        ELSE AtoiAll(Split(Sub(s, p + 5, p + 4 + NonQuoteRun[s, p + 5]), ","))
parseGalleryIDs(s) == parseGalleryIDsF[s]

(***************************************************************************)
(* PostProcessMarkdownLines (postprocessing.go): the body of the loop over *)
(* the lines, as a function of the line, the base URL and the answer of    *)
(* the gallery lookup.                                                     *)
(***************************************************************************)
defaultBaseURL == "http://localhost:8082"

audioEmbed(relativePath) ==
    "<audio controls>\n    <source src=\"" \o relativePath
      \o "\" type=\"audio/mpeg\"/>\n    Your browser does not support the audio element.\n</audio>"

videoEmbed(width, height, relativePath) ==
    "<video controls width=\"" \o width \o "\" height=\"" \o height
      \o "\">\n    <source src=\"" \o relativePath
      \o "\" type=\"video/mp4\"/>\n    Your browser does not support the video tag.\n</video>"

\* variant: an embed for the first URL only
galleryEmbeds_FirstOnly(dbURLs, baseURL) ==
    IF dbURLs = <<>> THEN ""
    ELSE "<img src=\"" \o TrimPrefixF[dbURLs[1], baseURL] \o "\"/>\n\n"
\* variant: a gallery without URLs leaves an empty image
galleryEmbeds_Placeholder(dbURLs, baseURL) ==
    IF dbURLs = <<>> THEN "<img src=\"\"/>\n\n"
    ELSE galleryEmbeds_FirstOnly(dbURLs, baseURL)
RECURSIVE galleryEmbeds(_, _)
galleryEmbeds(dbURLs, baseURL) ==
    IF dbURLs = <<>> THEN ""
    ELSE "<img src=\"" \o TrimPrefix(dbURLs[1], baseURL) \o "\"/>\n\n"
           \o galleryEmbeds(Tail(dbURLs), baseURL)

\* variant: the local copy keeps the bracket escapes
NormalizedLine_Escaped(raw) == TrimSpace(raw)
\* the local copy the loop works on: trimmed, bracket escapes removed
NormalizedLine(raw) ==
    ReplaceAll(ReplaceAll(TrimSpace(raw), "\\[", "["), "\\]", "]")

\* the first token of the line with the long YouTube forms collapsed
CanonicalLink(line) ==
    ReplaceAll(
      ReplaceAll(
        ReplaceAll(SplitN2(line, " ")[1],
                   "https://www.youtube.com/watch?v=", "https://youtu.be/"),
        "https://www.youtube.com/", "https://youtu.be/"),
      "https://youtube.com/", "https://youtu.be/")

\* variant: the text after the first space, without the space
RestOfLine_NoSeparator(line) ==
    IF Len(SplitN2(line, " ")) > 1 THEN SplitN2(line, " ")[2] ELSE ""
RestOfLine(line) ==
    IF Len(SplitN2(line, " ")) > 1 THEN " " \o SplitN2(line, " ")[2] ELSE ""

isYouTubeLine(line) == HasPrefix(CanonicalLink(line), "https://youtu.be")

\* variant: the trimmed, unescaped copy is written back
Unassigned_Normalized(raw, line) == line
\* variant: the trimmed line is written back
Unassigned_Trimmed(raw, line) == TrimSpace(raw)
\* splittedMd[i] when no branch of the iteration assigns it
Unassigned(raw, line) == raw

\* does the iteration reach the call of GetImageURLsFromDB
CallsLookup(raw) ==
    /\ galleryRe(NormalizedLine(raw))
    /\ ~parseGalleryIDs(NormalizedLine(raw)).err

\* one iteration: the new splittedMd[i], the URLs appended to mediaURLs, and
\* the branches that assigned the line or appended a URL, in program order.
\* First the part up to the end of the gallery branch: done is TRUE when
\* the iteration ended there (continue).
GalleryStepF[raw \in STRING, line \in STRING, baseURL \in STRING, dbURLs \in Seq(STRING), yt \in BOOLEAN, gal \in BOOLEAN] ==
    [text |-> IF gal /\ ~parseGalleryIDs(line).err
              THEN galleryEmbeds(dbURLs, baseURL)
              ELSE IF yt
              THEN "<YouTube id=\"" \o CanonicalLink(line) \o "\" />" \o RestOfLine(line)
              ELSE Unassigned(raw, line),
     media |-> IF gal /\ ~parseGalleryIDs(line).err THEN dbURLs ELSE <<>>,
     branches |-> (IF yt THEN <<"youtube">> ELSE <<>>)
                    \o (IF gal /\ ~parseGalleryIDs(line).err THEN <<"gallery">> ELSE <<>>),
     lookups |-> IF gal /\ ~parseGalleryIDs(line).err
                 THEN <<[ids |-> parseGalleryIDs(line).ids, urls |-> dbURLs]>>
                 ELSE <<>>,
     done |-> gal /\ parseGalleryIDs(line).err]

\* then the audio and the video branch, on what the gallery branch left
\* g: the record GalleryStepF returns
GalleryStepResults ==
    [text : STRING, media : Seq(STRING), branches : Seq(STRING),
     lookups : Seq([ids : Seq(Int), urls : Seq(STRING)]), done : BOOLEAN]

MediaStepF[g \in GalleryStepResults, baseURL \in STRING, a \in Seq(STRING), v \in Seq(STRING)] ==
    IF g.done
    THEN [text |-> g.text, media |-> <<>>, branches |-> g.branches, lookups |-> <<>>]
    ELSE IF a # <<>>
    THEN [text |-> audioEmbed(TrimPrefix(a[1], baseURL)),
          media |-> g.media \o <<a[1]>>,
          branches |-> g.branches \o <<"audio">>,
          lookups |-> g.lookups]
    ELSE IF v # <<>>
    THEN [text |-> videoEmbed(v[1], v[2], TrimPrefix(v[3], baseURL)),
          media |-> g.media \o <<v[3]>>,
          branches |-> g.branches \o <<"video">>,
          lookups |-> g.lookups]
    ELSE [text |-> g.text, media |-> g.media, branches |-> g.branches,
          lookups |-> g.lookups]

LineStepN[raw \in STRING, line \in STRING, baseURL \in STRING, dbURLs \in Seq(STRING)] ==
    MediaStepF[GalleryStepF[raw, line, baseURL, dbURLs, isYouTubeLine(line), galleryRe(line)],
               baseURL, audioRe(line), videoRe(line)]

LineStepF[raw \in STRING, baseURL \in STRING, dbURLs \in Seq(STRING)] ==
    LineStepN[raw, NormalizedLine(raw), baseURL, dbURLs]
LineStep(raw, baseURL, dbURLs) == LineStepF[raw, baseURL, dbURLs]

youTubeImport == "import { YouTube } from 'astro-embed';\n\n"
imageImport == "import { Image } from 'astro:assets';\n\n"

\* the document-level pass over the rejoined text
\* variant: the YouTube import line goes in front of the image import line
AddImports_YouTubeFirst(joined) ==
    IF Contains(joined, "<YouTube id=")
    THEN youTubeImport \o (IF Contains(joined, "<Image") THEN imageImport ELSE "") \o joined
    ELSE (IF Contains(joined, "<Image") THEN imageImport ELSE "") \o joined
\* variant: the image import line is keyed on the img tag
AddImports_OnImg(joined) ==
    (IF Contains(joined, "<img") THEN imageImport ELSE "")
        \o (IF Contains(joined, "<YouTube id=") THEN youTubeImport ELSE "") \o joined
AddImports(joined) ==
    LET withYT == IF Contains(joined, "<YouTube id=")
                  THEN youTubeImport \o joined ELSE joined
    IN  IF Contains(withYT, "<Image") THEN imageImport \o withYT ELSE withYT

(***************************************************************************)
(* ConvertHTMLToMarkdown (markdown.go): the replacement functions of the   *)
(* custom rules.  An element is a record: tag, attrs (a function from the  *)
(* names of the attributes it has to their values), text (its text         *)
(* content) and children (its element children, as goquery's Children()).  *)
(* A rule returns [ok, md, urls]: ok is FALSE when it returns nil, urls    *)
(* are the URLs it appends to imageURLs.                                   *)
(***************************************************************************)
NoAttrs == [x \in {} |-> ""]

Element(tag, attrs, text, children) ==
    [tag |-> tag, attrs |-> attrs, text |-> text, children |-> children]

HasAttr(n, name) == name \in DOMAIN n.attrs

\* the value Attr returns: "" for an attribute the element does not have
Attr(n, name) == IF HasAttr(n, name) THEN n.attrs[name] ELSE ""

Declined == [ok |-> FALSE, md |-> "", urls |-> <<>>]

\* what client.Get(href) gave when no request was made or it failed
NoResponse == [err |-> TRUE, url |-> ""]

\* does the anchor rule call client.Get for the element
Sends(n, baseURL) ==
    n.tag = "a" /\ HasAttr(n, "href") /\ HasPrefix(Attr(n, "href"), baseURL)

\* finalURL of the anchor rule: the URL of the last request of the redirect
\* chain when the request was made and succeeded, else the href
FinalURL(n, baseURL, resp) ==
    IF Sends(n, baseURL) /\ ~resp.err THEN resp.url ELSE Attr(n, "href")

\* the rule for a
anchorRule(n, baseURL, resp) ==
    IF ~HasAttr(n, "href") THEN Declined
    ELSE [ok |-> TRUE,
          md |-> "[" \o n.text \o "](" \o ReplaceAll(FinalURL(n, baseURL, resp), baseURL, "/") \o ")",
          urls |-> <<>>]

\* the rule for p, span, h1..h6: a block whose only element child is an img
singleImageRule(n, baseURL) ==
    IF Len(n.children) = 1 /\ n.children[1].tag = "img"
    THEN [ok |-> TRUE,
          md |-> "\n\n<img src=\"" \o TrimPrefix(Attr(n.children[1], "src"), baseURL)
                   \o "\" alt=\"" \o Attr(n.children[1], "alt") \o "\" />\n\n",
          urls |-> <<Attr(n.children[1], "src")>>]
    ELSE Declined

\* the video ID the figure rule reads out of the text of the div
figureVideoID(divText) ==
    IF Contains(divText, "youtu.be/")
    THEN Split(Split(Split(divText, "youtu.be/")[2], "?")[1], "&")[1]
    ELSE IF Contains(divText, "youtube.com/watch?v=") /\ Len(Split(divText, "v=")) > 1
    THEN Split(Split(divText, "v=")[2], "&")[1]
    ELSE ""

\* variant: the YouTube outcome queues the text of the div
figureRule_QueueVideo(n, baseURL) ==
    IF /\ Len(n.children) = 1
       /\ n.children[1].tag = "audio"
       /\ HasAttr(n.children[1], "src")
    THEN [ok |-> TRUE,
          md |-> "\n\n<audio controls src=\"/"
                   \o TrimPrefix(Attr(n.children[1], "src"), baseURL)
                   \o "\"></audio>\n\n",
          urls |-> <<Attr(n.children[1], "src")>>]
    ELSE IF /\ Len(n.children) = 2
            /\ n.children[1].tag = "div"
            /\ n.children[2].tag = "figcaption"
            /\ \/ Contains(TrimSpace(n.children[1].text), "youtu.be")
               \/ Contains(TrimSpace(n.children[1].text), "youtube.com")
            /\ figureVideoID(TrimSpace(n.children[1].text)) # ""
    THEN [ok |-> TRUE,
          md |-> "\n\n<YouTube id=\"" \o figureVideoID(TrimSpace(n.children[1].text))
                   \o "\" />\n\n" \o TrimSpace(n.children[2].text) \o "\n\n",
          urls |-> <<TrimSpace(n.children[1].text)>>]
    ELSE IF Len(n.children) = 1 /\ n.children[1].tag = "a"
    THEN [ok |-> TRUE,
          md |-> "\n\n<img src=\"/"
                   \o TrimPrefix(Attr(n.children[1], "href"), baseURL)
                   \o "\" alt=\""
                   \o (IF n.children[1].text = "" THEN "Image" ELSE n.children[1].text)
                   \o "\" />\n\n",
          urls |-> <<Attr(n.children[1], "href")>>]
    ELSE Declined
\* the rule for figure
figureRule(n, baseURL) ==
    IF /\ Len(n.children) = 1
       /\ n.children[1].tag = "audio"
       /\ HasAttr(n.children[1], "src")
    THEN [ok |-> TRUE,
          md |-> "\n\n<audio controls src=\"/"
                   \o TrimPrefix(Attr(n.children[1], "src"), baseURL)
                   \o "\"></audio>\n\n",
          urls |-> <<Attr(n.children[1], "src")>>]
    ELSE IF /\ Len(n.children) = 2
            /\ n.children[1].tag = "div"
            /\ n.children[2].tag = "figcaption"
            /\ \/ Contains(TrimSpace(n.children[1].text), "youtu.be")
               \/ Contains(TrimSpace(n.children[1].text), "youtube.com")
            /\ figureVideoID(TrimSpace(n.children[1].text)) # ""
    THEN [ok |-> TRUE,
          md |-> "\n\n<YouTube id=\"" \o figureVideoID(TrimSpace(n.children[1].text))
                   \o "\" />\n\n" \o TrimSpace(n.children[2].text) \o "\n\n",
          urls |-> <<>>]
    ELSE IF Len(n.children) = 1 /\ n.children[1].tag = "a"
    THEN [ok |-> TRUE,
          md |-> "\n\n<img src=\"/"
                   \o TrimPrefix(Attr(n.children[1], "href"), baseURL)
                   \o "\" alt=\""
                   \o (IF n.children[1].text = "" THEN "Image" ELSE n.children[1].text)
                   \o "\" />\n\n",
          urls |-> <<Attr(n.children[1], "href")>>]
    ELSE Declined

\* the generic rendering of html-to-markdown for an element no custom rule
\* replaces: its text as a paragraph, square brackets escaped
Fallback(n) ==
    [ok |-> TRUE,
     md |-> "\n\n" \o ReplaceAll(ReplaceAll(n.text, "[", "\\["), "]", "\\]") \o "\n\n",
     urls |-> <<>>]

\* the rule table: the custom rule registered for the tag, then the
\* fallback; resp is what client.Get gave the anchor rule
ApplyRules(n, baseURL, resp) ==
    LET custom == IF n.tag = "a" THEN anchorRule(n, baseURL, resp)
                  ELSE IF n.tag \in {"p", "span", "h1", "h2", "h3", "h4", "h5", "h6"}
                  THEN singleImageRule(n, baseURL)
                  ELSE IF n.tag = "figure" THEN figureRule(n, baseURL)
                  ELSE Declined
    IN  IF custom.ok THEN custom ELSE Fallback(n)

\* the anchors the rule for a runs on while an element is rendered: its
\* anchor children (the content of an element is rendered before the
\* element's own rule), then the element itself
AnchorsOf(n) ==
    SelectSeq(n.children, LAMBDA c : c.tag = "a") \o (IF n.tag = "a" THEN <<n>> ELSE <<>>)

\* the requests made while an element is rendered, each answered resp
RequestsOf(n, baseURL, resp) ==
    [k \in 1..Len(SelectSeq(AnchorsOf(n), LAMBDA c : Sends(c, baseURL))) |->
        [href |-> Attr(SelectSeq(AnchorsOf(n), LAMBDA c : Sends(c, baseURL))[k], "href"),
         err |-> resp.err, url |-> resp.url]]

(***************************************************************************)
(* ParseWordPressDate and GenerateFrontmatter (markdown.go).  A time.Time  *)
(* is a record: ymd, what Format("2006-01-02") prints (the date in the     *)
(* zone the time was parsed in), and zero, what IsZero() reports (the      *)
(* instant is January 1 of year 1, 00:00:00 UTC).                          *)
(***************************************************************************)
IsNum(s) == s # "" /\ DigitRun[s, 1] = Len(s)

IsLeap(y) == (y % 4 = 0 /\ y % 100 # 0) \/ y % 400 = 0

DaysIn(y, m) ==
    IF m = 2 THEN (IF IsLeap(y) THEN 29 ELSE 28)
    ELSE IF m \in {4, 6, 9, 11} THEN 30 ELSE 31

\* s begins with a valid "2006-01-02?15:04:05", ? being sep
HasDateTime(s, sep) ==
    /\ Len(s) >= 19
    /\ IsNum(Sub(s, 1, 4)) /\ Sub(s, 5, 5) = "-"
    /\ IsNum(Sub(s, 6, 7)) /\ Sub(s, 8, 8) = "-"
    /\ IsNum(Sub(s, 9, 10)) /\ Sub(s, 11, 11) = sep
    /\ IsNum(Sub(s, 12, 13)) /\ Sub(s, 14, 14) = ":"
    /\ IsNum(Sub(s, 15, 16)) /\ Sub(s, 17, 17) = ":"
    /\ IsNum(Sub(s, 18, 19))
    /\ Decimal[Sub(s, 6, 7)] \in 1..12
    /\ Decimal[Sub(s, 9, 10)] \in 1..DaysIn(Decimal[Sub(s, 1, 4)], Decimal[Sub(s, 6, 7)])
    /\ Decimal[Sub(s, 12, 13)] <= 23
    /\ Decimal[Sub(s, 15, 16)] <= 59
    /\ Decimal[Sub(s, 18, 19)] <= 59

SecondOfDay(s) ==
    3600 * Decimal[Sub(s, 12, 13)] + 60 * Decimal[Sub(s, 15, 16)] + Decimal[Sub(s, 18, 19)]

\* the zone suffix Z07:00 of RFC3339: "Z" or +hh:mm or -hh:mm
IsZone(z) ==
    \/ z = "Z"
    \/ /\ Len(z) = 6 /\ Sub(z, 1, 1) \in {"+", "-"}
       /\ IsNum(Sub(z, 2, 3)) /\ Sub(z, 4, 4) = ":" /\ IsNum(Sub(z, 5, 6))
       /\ Decimal[Sub(z, 2, 3)] <= 23 /\ Decimal[Sub(z, 5, 6)] <= 59

\* its offset from UTC in seconds
ZoneOffset(z) ==
    IF z = "Z" THEN 0
    ELSE (IF Sub(z, 1, 1) = "-" THEN 0 - 1 ELSE 1)
           * (3600 * Decimal[Sub(z, 2, 3)] + 60 * Decimal[Sub(z, 5, 6)])

\* what follows the seconds, a fraction of a second skipped
AfterSeconds(s) ==
    IF HasAt(s, 20, ".") /\ DigitRun[s, 21] > 0
    THEN From(s, 21 + DigitRun[s, 21]) ELSE From(s, 20)

\* is the instant of the date-time s, written at offset off, the zero time
IsZeroInstant(s, off) ==
    \/ Sub(s, 1, 10) = "0001-01-01" /\ off >= 0 /\ SecondOfDay(s) = off /\ AfterSeconds(s) = From(s, 20)
    \/ Sub(s, 1, 10) = "0000-12-31" /\ off < 0 /\ SecondOfDay(s) = 86400 + off /\ AfterSeconds(s) = From(s, 20)

ZeroTime == [ymd |-> "0001-01-01", zero |-> TRUE]

\* the first format has no zone (the time is UTC); the other four are the
\* RFC3339 shape with its zone suffix
ParseWordPressDate(dateStr) ==
    IF HasDateTime(dateStr, " ") /\ AfterSeconds(dateStr) = ""
    THEN [err |-> FALSE,
          date |-> [ymd |-> Sub(dateStr, 1, 10), zero |-> IsZeroInstant(dateStr, 0)]]
    ELSE IF HasDateTime(dateStr, "T") /\ IsZone(AfterSeconds(dateStr))
    THEN [err |-> FALSE,
          date |-> [ymd |-> Sub(dateStr, 1, 10),
                    zero |-> IsZeroInstant(dateStr, ZoneOffset(AfterSeconds(dateStr)))]]
    ELSE [err |-> TRUE, date |-> ZeroTime]

\* strconv.Quote, for printable ASCII text
Quote(s) == "\"" \o ReplaceAll(ReplaceAll(s, "\\", "\\\\"), "\"", "\\\"") \o "\""

RECURSIVE QuoteAll(_)
QuoteAll(tags) == IF tags = <<>> THEN <<>> ELSE <<Quote(tags[1])>> \o QuoteAll(Tail(tags))

\* variant: the optional lines are always written, empty when not available
GenerateFrontmatter_Placeholders(post, publishDate, updatedDate) ==
    "---\ntitle: " \o Quote(post.Title)
      \o "\nexcerpt: \"\"\npublishDate: " \o Quote(publishDate.ymd) \o "\n"
      \o (IF ~updatedDate.zero THEN "updatedDate: " \o Quote(updatedDate.ymd) ELSE "") \o "\n"
      \o "isFeatured: false\ntags: "
      \o (IF Len(post.Tags) > 0 THEN "[" \o Join(QuoteAll(post.Tags), ", ") \o "]" ELSE "[]")
      \o "\n"
      \o (IF post.FeaturedImage # "" THEN "featuredImage: " \o Quote(post.FeaturedImage) ELSE "")
      \o "\nseo: {}\n---\n\n"
GenerateFrontmatter(post, publishDate, updatedDate) ==
    "---\ntitle: " \o Quote(post.Title)
      \o "\nexcerpt: \"\"\npublishDate: " \o Quote(publishDate.ymd) \o "\n"
      \o (IF ~updatedDate.zero
          THEN "updatedDate: " \o Quote(updatedDate.ymd) \o "\n" ELSE "")
      \o "isFeatured: false\ntags: "
      \o (IF Len(post.Tags) > 0 THEN "[" \o Join(QuoteAll(post.Tags), ", ") \o "]" ELSE "[]")
      \o "\n"
      \o (IF post.FeaturedImage # ""
          THEN "featuredImage: " \o Quote(post.FeaturedImage) \o "\n" ELSE "")
      \o "seo: {}\n---\n\n"

\* processContent, the lines that parse the dates and call
\* GenerateFrontmatter; now is what time.Now() returns
Frontmatter(post, now) ==
    GenerateFrontmatter(post,
                        IF ParseWordPressDate(post.PublishedDate).err
                        THEN now ELSE ParseWordPressDate(post.PublishedDate).date,
                        ParseWordPressDate(post.UpdatedDate).date)

(***************************************************************************)
(* processContent (main.go): the pure steps of one iteration.              *)
(***************************************************************************)
\* url.Parse(fullURL) and u.Path, for the URLs scheme://host/path: an error
\* when the URL begins with a colon (no scheme)
URLPath(fullURL) ==
    IF HasPrefix(fullURL, ":") THEN [err |-> TRUE, path |-> ""]
    ELSE IF ~Contains(fullURL, "://") THEN [err |-> FALSE, path |-> fullURL]
    ELSE IF ~Contains(From(fullURL, Index(fullURL, "://") + 3), "/") THEN [err |-> FALSE, path |-> ""]
    ELSE [err |-> FALSE,
          path |-> From(From(fullURL, Index(fullURL, "://") + 3),
                        Index(From(fullURL, Index(fullURL, "://") + 3), "/"))]

TrimSuffix(s, p) ==
    IF Len(s) >= Len(p) /\ HasAt(s, Len(s) - Len(p) + 1, p) THEN Sub(s, 1, Len(s) - Len(p)) ELSE s

\* the path of the files of an item
ItemPath(uPath) ==
    TrimSuffix(IF TrimPrefix(uPath, "/") = "" THEN "index" ELSE TrimPrefix(uPath, "/"), "/")

\* variant: the URLs are collected whether or not the conversion failed
Collected_Always(all, failed, urls, featured) ==
    all \o urls \o (IF featured # "" THEN <<featured>> ELSE <<>>)
\* allImageURLs after the conversion of an item returned: nothing is
\* appended when it failed
Collected(all, failed, urls, featured) ==
    IF failed THEN all
    ELSE all \o urls \o (IF featured # "" THEN <<featured>> ELSE <<>>)

(***************************************************************************)
(* processYouTubeShortcodes (markdown.go) as a function of its argument:   *)
(* the loop of the actions below run to its end.  returns is FALSE when    *)
(* the loop does not end (a shortcode without video ID is found again and  *)
(* again).                                                                 *)
(***************************************************************************)
ShortcodeStart(r) == Index(r, startTag)

ShortcodeEnd(r) ==
    IF ShortcodeStart(r) = 0 \/ Index(From(r, ShortcodeStart(r)), endTag) = 0 THEN 0
    ELSE Index(From(r, ShortcodeStart(r)), endTag) + ShortcodeStart(r) - 1

ShortcodeID(r) ==
    extractYouTubeVideoID(Sub(r, ShortcodeStart(r) + Len(startTag), ShortcodeEnd(r) - 1))

RECURSIVE ShortcodesLoop(_)
ShortcodesLoop(r) ==
    IF ShortcodeStart(r) = 0 \/ ShortcodeEnd(r) = 0 THEN [returns |-> TRUE, result |-> r]
    ELSE IF ShortcodeID(r) = "" THEN [returns |-> FALSE, result |-> r]
    ELSE ShortcodesLoop(Sub(r, 1, ShortcodeStart(r) - 1)
                          \o "\n\n<YouTube id=\"https://youtu.be/" \o ShortcodeID(r) \o "\" />\n\n"
                          \o From(r, ShortcodeEnd(r) + Len(endTag)))

\* variant: the media list is a variable of the package, one for all calls
Local_Shared(p) == 1
\* the instance of the local media list (imageURLs, mediaURLs) a call
\* uses: its own
Local(p) == p

(***************************************************************************)
(* State.                                                                  *)
(***************************************************************************)
VARIABLES
    pc,          \* the position of the running call
    env,         \* the environment variable WP_BASE_URL ("" when unset)
    content,     \* processYouTubeShortcodes: the argument
    result,      \* processYouTubeShortcodes: the local result
    startIndex,  \* processYouTubeShortcodes: start of the shortcode found
    endIndex,    \* processYouTubeShortcodes: start of its end marker
    markdown,    \* PostProcessMarkdownLines: the argument
    ppBaseURL,   \* PostProcessMarkdownLines: the local baseURL
    splittedMd,  \* PostProcessMarkdownLines: the lines, rewritten in place
    lineIdx,     \* PostProcessMarkdownLines: the loop index i (from 1)
    mediaURLs,   \* PostProcessMarkdownLines: the media list
    out,         \* PostProcessMarkdownLines: the returned text
    branches,    \* history: per line, the branches that wrote or queued
    queued,      \* history: per line, the URLs appended to mediaURLs
    lookups,     \* history: per line, the lookup calls: [ids, urls, err]
    rerun,       \* history: the argument of this call is the last call's out
    html,        \* ConvertHTMLToMarkdown: the argument, as top-level elements
    cvBaseURL,   \* ConvertHTMLToMarkdown: the local baseURL
    nodeIdx,     \* ConvertHTMLToMarkdown: the element the converter is at
    pieces,      \* ConvertHTMLToMarkdown: the text rendered, per element
    imageURLs,   \* ConvertHTMLToMarkdown: the media list
    cvOut,       \* ConvertHTMLToMarkdown: the returned text
    requests,    \* history: per element, the requests of client.Get: [href, err, url]
    caller,      \* who called processYouTubeShortcodes
    pgArg,       \* parseGalleryIDs: the argument
    pgElems,     \* history: the elements the ID list of pgArg was written from
    pgRet,       \* parseGalleryIDs: the result [err, ids]
    fmPost,      \* processContent: the post the frontmatter is written for
    fmIn,        \* history: what the title and the dates of fmPost were drawn from
    fmNow,       \* processContent: what time.Now() returned
    fmRet,       \* GenerateFrontmatter: the result
    pcContent,   \* processContent: the argument content
    pcIdx,       \* processContent: the loop position (from 1; 0: not running)
    pcPath,      \* processContent: the local path
    allImageURLs, \* processContent: the media list
    pcFiles,     \* the files written: [item, path, data]
    pcOutcome,   \* history: per item, how its iteration ended
    pcAdded,     \* history: per item, the URLs its iteration appended
    pcRet,       \* processContent: the returned list
    calls,       \* concurrent calls: per call, its position, arguments and locals
    lists,       \* concurrent calls: the instances of imageURLs / mediaURLs
    fgNode,      \* the figure rule: the element it is called on
    fgRet,       \* the figure rule: the result [ok, md, urls]
    idArg,       \* extractYouTubeVideoID: the argument
    idRet        \* extractYouTubeVideoID: the result

ytVars == <<content, result, startIndex, endIndex, caller>>
ppVars == <<markdown, ppBaseURL, splittedMd, lineIdx, mediaURLs, out,
            branches, queued, lookups, rerun>>
cvVars == <<html, cvBaseURL, nodeIdx, pieces, imageURLs, cvOut, requests>>
pgVars == <<pgArg, pgElems, pgRet>>
fmVars == <<fmPost, fmIn, fmNow, fmRet>>
pcVars == <<pcContent, pcIdx, pcPath, allImageURLs, pcFiles, pcOutcome, pcAdded, pcRet>>
ccVars == <<calls, lists>>
rlVars == <<fgNode, fgRet, idArg, idRet>>
auxVars == <<pgVars, fmVars, pcVars, ccVars, rlVars>>
vars == <<pc, env, ytVars, ppVars, cvVars, auxVars>>

\* the values of WP_BASE_URL
EnvValues == {"", "https://example.com"}

\* the texts processYouTubeShortcodes is called on: concatenations of
\* shortcodes, bare markers and plain text
YTFragments ==
    { "text ",
      "\\[youtube\\]",
      "\\[/youtube\\]",
      "\\[youtube\\]https://youtu.be/xyz789?t=5\\[/youtube\\]",
      "\\[youtube\\]https://www.youtube.com/watch?v=abc123&t=5\\[/youtube\\]",
      "\\[youtube\\]not a url\\[/youtube\\]",
      "\\[youtube\\]https://youtu.be/\\[/youtube\\]" }

YTInputs == {Concat(q) : q \in SeqsUpTo(YTFragments, MaxFrags)}

\* the lines of the documents PostProcessMarkdownLines is called on
PPLines ==
    { "<Image src={cover} alt=\"plain\" />",
      "  indented \\[note\\] text ",
      "https://www.youtube.com/watch?v=abc123 caption text",
      "https://youtu.be/abc123 \\[live\\]",
      "https://www.youtube.com/abc123  two  spaces",
      "https://youtube.com/abc123",
      "\\[gallery ids=\"3,5\"\\]",
      " \\[gallery ids=\"3,x\"\\]",
      "[audio mp3=\"https://example.com/wp-content/a.mp3\"][/audio]",
      " \\[video width=\"640\" height=\"360\" mp4=\"https://example.com/wp-content/v.mp4\"\\]\\[/video\\]",
      "[audio mp3=\"https://cdn.other.org/b.mp3\"][/audio]",
      "[gallery ids=\"7\"] [audio mp3=\"https://example.com/wp-content/a.mp3\"][/audio]",
      "https://youtu.be/abc123 [gallery ids=\"7\"]",
      "<YouTube id=\"xyz789\" />",
      "<img src=\"/wp-content/i.jpg\" alt=\"\" />" }

PPInputs == {Join(q, "\n") : q \in SeqsUpTo(PPLines, MaxLines)}

\* lines with a gallery, audio or video shortcode and other text, and
\* gallery lines with more than one ids="..." occurrence
PPMixedLines ==
    { "Listen: [audio mp3=\"https://example.com/wp-content/a.mp3\"][/audio] (live)",
      "Watch [video width=\"640\" height=\"360\" mp4=\"https://example.com/wp-content/v.mp4\"][/video] now",
      "Photos: [gallery ids=\"7\"] from the trip",
      "[gallery ids=\"3,5\"]",
      "ids=\"9\" [gallery ids=\"3,5\"]",
      "[gallery include_ids=\"9\" ids=\"3\"]",
      "[audio mp3=\"https://cdn.other.org/b.mp3\"][/audio]",
      "plain text" }

PPMixedInputs == {Join(q, "\n") : q \in SeqsUpTo(PPMixedLines, MaxLines) \ {<<>>}}

\* the elements of the documents ConvertHTMLToMarkdown is called on
Img(src, alt) == Element("img", [src |-> src, alt |-> alt], "", <<>>)
Anchor(href, text) == Element("a", [href |-> href], text, <<>>)

\* where a request of client.Get can be redirected to
RedirectTargets == {"https://example.com/moved/", "https://cdn.other.org/moved"}

\* client.Get(href): an error, the page at href, or the end of a redirect
\* chain
ClientGet(href) ==
    {NoResponse, [err |-> FALSE, url |-> href]} \cup {[err |-> FALSE, url |-> t] : t \in RedirectTargets}

CVNodes ==
    { Anchor("https://example.com/about", "About [us]"),
      Anchor("https://cdn.other.org/r?u=https://example.com/about", "Mirror"),
      Anchor("/contact", "Contact"),
      Element("a", NoAttrs, "no target", <<>>),
      Element("p", NoAttrs, "", <<Img("https://example.com/wp-content/i.jpg", "photo")>>),
      Element("p", NoAttrs, "", <<Img("https://cdn.other.org/j.jpg", "")>>),
      Element("p", NoAttrs, "Intro text", <<Img("https://example.com/wp-content/t.jpg", "inline")>>),
      Element("figure", NoAttrs, "Caption",
              <<Anchor("https://example.com/wp-content/img.jpg", "Caption")>>),
      Element("figure", NoAttrs, "",
              <<Anchor("https://cdn.other.org/k.jpg", "")>>),
      Element("p", NoAttrs, "some [text]", <<>>),
      Element("p", NoAttrs, "[youtube]https://youtu.be/xyz789?t=5[/youtube]", <<>>) }

CVInputs == SeqsUpTo(CVNodes, MaxNodes)

\* the element children of the figures the figure rule is called on
FigChildren ==
    { Element("audio", [src |-> "https://example.com/wp-content/a.mp3"], "", <<>>),
      Element("audio", NoAttrs, "", <<>>),
      Anchor("https://example.com/wp-content/p.jpg", "A photo"),
      Anchor("https://cdn.other.org/q.jpg", ""),
      Img("https://example.com/wp-content/i.jpg", "photo"),
      Element("figcaption", NoAttrs, " A caption ", <<>>),
      Element("div", NoAttrs, " https://youtu.be/abc123?t=5 ", <<>>),
      Element("div", NoAttrs, "https://www.youtube.com/watch?v=xyz789&list=L", <<>>),
      Element("div", NoAttrs, "https://www.youtube.com/watch?v=xyz789?t=5", <<>>),
      Element("div", NoAttrs, "https://www.youtube.com/embed/q1", <<>>),
      Element("div", NoAttrs, "https://youtu.be/", <<>>),
      Element("div", NoAttrs, "https://vimeo.com/1", <<>>) }

\* the figures the figure rule is called on
Figures == {Element("figure", NoAttrs, "", q) : q \in SeqsUpTo(FigChildren, MaxChildren)}

\* the URLs extractYouTubeVideoID is called on
VideoURLs ==
    { "https://youtu.be/abc123",
      "https://youtu.be/abc123?t=5",
      "https://youtu.be/abc123&t=5",
      "https://youtu.be/",
      "https://www.youtube.com/watch?v=xyz789",
      "https://www.youtube.com/watch?v=xyz789&list=L",
      "https://www.youtube.com/watch?v=xyz789?t=5",
      "https://www.youtube.com/watch?v=",
      "https://www.youtube.com/embed/q1",
      "not a url" }

\* the URLs the gallery lookup can return
LookupURLs == {"https://example.com/wp-content/g1.jpg", "https://cdn.other.org/g2.jpg"}

\* GetImageURLsFromDB(db, ids): what it can return: any list of URLs (no
\* correspondence with the IDs), or an error with no URL
GetImageURLsFromDB(ids) ==
    {[urls |-> q, err |-> FALSE] : q \in SeqsUpTo(LookupURLs, MaxURLs)}
        \cup {[urls |-> <<>>, err |-> TRUE]}

\* the iteration does not reach the call
NoLookup == [urls |-> <<>>, err |-> FALSE]

\* the elements of an ID list, as written, with the integer they denote
IDElem(text, ok, value) == [text |-> text, ok |-> ok, value |-> value]

IDElems ==
    { IDElem("3", TRUE, 3), IDElem("5", TRUE, 5), IDElem(" 12 ", TRUE, 12),
      IDElem("-2", TRUE, 0 - 2), IDElem("+7", TRUE, 7),
      IDElem("x", FALSE, 0), IDElem("", FALSE, 0), IDElem("3 5", FALSE, 0) }

RECURSIVE Texts(_)
Texts(elems) == IF elems = <<>> THEN <<>> ELSE <<elems[1].text>> \o Texts(Tail(elems))

\* gallery markers around an ID list, and markers without the attribute
GalleryHeads == {"[gallery ids=\"", "[gallery columns=\"1\" size=\"full\" ids=\""}
GalleryTails == {"\"]", "\" link=\"file\"]"}
NoIDsMarkers == {"[gallery]", "[gallery columns=\"1\"]", "[gallery ids=\"\"]"}

\* a timestamp of a post: its text, whether it is in one of the five formats
\* of ParseWordPressDate, and then its date and whether it is the zero time
DateInput(text, ok, ymd, zero) == [text |-> text, ok |-> ok, ymd |-> ymd, zero |-> zero]

DateInputs ==
    { DateInput("2024-03-05 10:20:30", TRUE, "2024-03-05", FALSE),
      DateInput("2024-02-29T08:00:00+02:00", TRUE, "2024-02-29", FALSE),
      DateInput("2023-12-31T23:59:59Z", TRUE, "2023-12-31", FALSE),
      DateInput("2024-03-05T10:20:30.000-07:00", TRUE, "2024-03-05", FALSE),
      DateInput("0001-01-01 00:00:00", TRUE, "0001-01-01", TRUE),
      DateInput("0000-00-00 00:00:00", FALSE, "", FALSE),
      DateInput("2023-02-29 10:20:30", FALSE, "", FALSE),
      DateInput("2024-03-05", FALSE, "", FALSE),
      DateInput("", FALSE, "", FALSE) }

\* the publish timestamps: one per outcome
PublishInputs == {d \in DateInputs : d.text \in {"2024-03-05 10:20:30", "2023-12-31T23:59:59Z", "0000-00-00 00:00:00"}}

\* a title and what it reads quoted
TitleInputs ==
    { [text |-> "Hello", quoted |-> "\"Hello\""],
      [text |-> "Say \"hi\" \\o/", quoted |-> "\"Say \\\"hi\\\" \\\\o/\""] }

TagValues == {"go", "wp"}

FeaturedImages == {"", "https://example.com/wp-content/f.jpg"}

\* what time.Now() returns
NowValues == {[ymd |-> "2026-11-04", zero |-> FALSE], [ymd |-> "2026-11-05", zero |-> FALSE]}

NoPost == [Title |-> "", PublishedDate |-> "", UpdatedDate |-> "", Tags |-> <<>>, FeaturedImage |-> ""]

\* the posts of a run: body, metadata, and the URL the WordPress API has
\* for the ID
Post(id, title, published, updated, body, tags, image) == [ID |-> id, Title |-> title, PublishedDate |-> published, UpdatedDate |-> updated, Content |-> body, Tags |-> tags, FeaturedImage |-> image]

PCPosts ==
    { Post(1, "Hello", "2024-03-05 10:20:30", "2024-03-06 09:00:00",
           <<Element("p", NoAttrs, "", <<Img("https://example.com/wp-content/i.jpg", "photo")>>)>>,
           <<"go">>, "https://example.com/wp-content/f.jpg"),
      Post(2, "Home", "2023-12-31T23:59:59Z", "",
           <<Element("p", NoAttrs, "some [text]", <<>>),
             Element("p", NoAttrs, "[youtube]https://youtu.be/xyz789?t=5[/youtube]", <<>>)>>,
           <<>>, ""),
      Post(3, "Photos", "0000-00-00 00:00:00", "0000-00-00 00:00:00",
           <<Element("p", NoAttrs, "", <<Img("https://cdn.other.org/j.jpg", "")>>)>>,
           <<"wp", "wp">>, "https://example.com/wp-content/g.jpg") }

\* the lists of distinct posts
PCInputs == {q \in SeqsUpTo(PCPosts, MaxPosts) : q # <<>> /\ \A i, j \in 1..Len(q) : q[i] = q[j] => i = j}

\* GetPageURL / GetPostURL: what the call for an ID can return
GetURL(id) ==
    { [err |-> TRUE, url |-> ""],
      [err |-> FALSE, url |-> ":bad"],
      [err |-> FALSE,
       url |-> IF id = 1 THEN "https://example.com/hello-world/"
               ELSE IF id = 2 THEN "https://example.com/"
               ELSE "https://example.com/blog/photos"] }

\* the concurrent calls and their documents: every call has its own
Calls == 1..NumCalls

DocName(p) == IF p = 1 THEN "a" ELSE IF p = 2 THEN "b" ELSE "c"

CCDocs(p) ==
    { <<Element("p", NoAttrs, "", <<Img("https://example.com/wp-content/" \o DocName(p) \o ".jpg", "photo")>>),
        Element("p", NoAttrs, "[youtube]https://youtu.be/xyz789?t=5[/youtube]", <<>>)>>,
      <<Element("figure", NoAttrs, "Caption", <<Anchor("https://example.com/wp-content/" \o DocName(p) \o "-full.jpg", "Caption")>>),
        Element("p", NoAttrs, "", <<Img("https://cdn.other.org/" \o DocName(p) \o ".jpg", "")>>)>> }

CCTexts(p) ==
    { "[audio mp3=\"https://example.com/wp-content/" \o DocName(p) \o ".mp3\"][/audio]\n\\[gallery ids=\"3,5\"\\]",
      "https://youtu.be/abc123 caption " \o DocName(p) \o "\n[audio mp3=\"https://cdn.other.org/" \o DocName(p) \o ".mp3\"][/audio]" }

NoCall == [fn |-> "", pc |-> "idle", html |-> <<>>, markdown |-> "", baseURL |-> "", idx |-> 0, pieces |-> <<>>, splittedMd |-> <<>>, answers |-> <<>>, text |-> "", list |-> <<>>]

\* the arguments outputDir and htmlOutputDir
outputDir == "content"
htmlOutputDir == "html"

Init ==
    /\ pc = "idle"
    /\ fgNode = Element("figure", NoAttrs, "", <<>>)
    /\ fgRet = Declined
    /\ idArg = ""
    /\ idRet = ""
    /\ requests = <<>>
    /\ calls = [p \in Calls |-> NoCall]
    /\ lists = [p \in Calls |-> <<>>]
    /\ pcContent = <<>>
    /\ pcIdx = 0
    /\ pcPath = ""
    /\ allImageURLs = <<>>
    /\ pcFiles = <<>>
    /\ pcOutcome = <<>>
    /\ pcAdded = <<>>
    /\ pcRet = <<>>
    /\ fmPost = NoPost
    /\ fmIn = <<>>
    /\ fmNow = ZeroTime
    /\ fmRet = ""
    /\ pgArg = ""
    /\ pgElems = <<>>
    /\ pgRet = [err |-> FALSE, ids |-> <<>>]
    /\ env \in EnvValues
    /\ content = ""
    /\ result = ""
    /\ startIndex = 0
    /\ endIndex = 0
    /\ markdown = ""
    /\ ppBaseURL = ""
    /\ splittedMd = <<>>
    /\ lineIdx = 0
    /\ mediaURLs = <<>>
    /\ out = ""
    /\ branches = <<>>
    /\ queued = <<>>
    /\ lookups = <<>>
    /\ rerun = FALSE
    /\ html = <<>>
    /\ cvBaseURL = ""
    /\ nodeIdx = 0
    /\ pieces = <<>>
    /\ imageURLs = <<>>
    /\ cvOut = ""
    /\ caller = ""

(***************************************************************************)
(* processYouTubeShortcodes (markdown.go).                                 *)
(***************************************************************************)
\* processYouTubeShortcodes is entered: result := content
processYouTubeShortcodes_Call ==
    /\ pc = "idle"
    /\ \E c \in YTInputs :
        /\ content' = c
        /\ result' = c
    /\ pc' = "yt_find"
    /\ caller' = ""
    /\ UNCHANGED <<auxVars, env, startIndex, endIndex, ppVars, cvVars>>

\* the head of one loop iteration: locate the start marker and the first end
\* marker after it, leave the loop when either is missing
processYouTubeShortcodes_Find ==
    /\ pc = "yt_find"
    /\ LET s == Index(result, startTag)
           e == IF s = 0 THEN 0 ELSE Index(From(result, s), endTag)
       IN  IF s = 0 \/ e = 0
           THEN /\ pc' = IF caller = "convert" THEN "cv_return" ELSE "yt_done"
                /\ UNCHANGED <<startIndex, endIndex>>
           ELSE /\ pc' = "yt_splice"
                /\ startIndex' = s
                /\ endIndex' = e + s - 1
    /\ UNCHANGED <<auxVars, env, content, result, caller, ppVars, cvVars>>

\* the rest of the iteration: extract the ID and splice the replacement in
processYouTubeShortcodes_Splice ==
    /\ pc = "yt_splice"
    /\ LET url == Sub(result, startIndex + Len(startTag), endIndex - 1)
           videoID == extractYouTubeVideoID(url)
           replacement ==
               IF videoID # ""
               THEN "\n\n<YouTube id=\"https://youtu.be/" \o videoID \o "\" />\n\n"
               ELSE Sub(result, startIndex, endIndex + Len(endTag) - 1)
       IN  result' = Sub(result, 1, startIndex - 1) \o replacement
                       \o From(result, endIndex + Len(endTag))
    /\ pc' = "yt_find"
    /\ UNCHANGED <<auxVars, env, content, startIndex, endIndex, caller, ppVars, cvVars>>

(***************************************************************************)
(* PostProcessMarkdownLines (postprocessing.go).                           *)
(***************************************************************************)
\* entry: read the base URL, split the text into lines
PPEnter(md) ==
    /\ markdown' = md
    /\ ppBaseURL' = IF env = "" THEN defaultBaseURL ELSE env
    /\ splittedMd' = Split(md, "\n")
    /\ lineIdx' = 1
    /\ mediaURLs' = <<>>
    /\ out' = ""
    /\ branches' = <<>>
    /\ queued' = <<>>
    /\ lookups' = <<>>
    /\ pc' = "pp_loop"
    /\ UNCHANGED <<auxVars, env, ytVars, cvVars>>

PostProcessMarkdownLines_Call ==
    /\ pc = "idle"
    /\ rerun' = FALSE
    /\ \E md \in PPInputs : PPEnter(md)

\* the same entry, on a text whose lines hold a shortcode among other text
PostProcessMarkdownLines_CallOnMixed ==
    /\ pc = "idle"
    /\ rerun' = FALSE
    /\ \E md \in PPMixedInputs : PPEnter(md)

\* the caller runs the post-processor again, on the text it returned
PostProcessMarkdownLines_CallOnOutput ==
    /\ pc = "pp_done"
    /\ ~rerun
    /\ rerun' = TRUE
    /\ PPEnter(out)

\* one iteration of the loop over the lines
PostProcessMarkdownLines_Line ==
    /\ pc = "pp_loop"
    /\ lineIdx <= Len(splittedMd)
    /\ \E answer \in IF CallsLookup(splittedMd[lineIdx])
                     THEN GetImageURLsFromDB(parseGalleryIDs(NormalizedLine(splittedMd[lineIdx])).ids)
                     ELSE {NoLookup} :
        \E step \in {LineStep(splittedMd[lineIdx], ppBaseURL, answer.urls)} :
            /\ splittedMd' = [splittedMd EXCEPT ![lineIdx] = step.text]
            /\ mediaURLs' = mediaURLs \o step.media
            /\ branches' = Append(branches, step.branches)
            /\ queued' = Append(queued, step.media)
            /\ lookups' = Append(lookups,
                                 [c \in 1..Len(step.lookups) |->
                                     [ids |-> step.lookups[c].ids,
                                      urls |-> step.lookups[c].urls,
                                      err |-> answer.err]])
    /\ lineIdx' = lineIdx + 1
    /\ UNCHANGED <<auxVars, pc, env, ytVars, cvVars, markdown, ppBaseURL, out, rerun>>

\* after the loop: rejoin, add the import lines, return
PostProcessMarkdownLines_Return ==
    /\ pc = "pp_loop"
    /\ lineIdx > Len(splittedMd)
    /\ out' = AddImports(Join(splittedMd, "\n"))
    /\ pc' = "pp_done"
    /\ UNCHANGED <<auxVars, env, ytVars, cvVars, markdown, ppBaseURL, splittedMd,
                   lineIdx, mediaURLs, branches, queued, lookups, rerun>>

(***************************************************************************)
(* ConvertHTMLToMarkdown (markdown.go).                                    *)
(***************************************************************************)
\* entry: read the base URL (no default), start the conversion
ConvertHTMLToMarkdown_Call ==
    /\ pc = "idle"
    /\ \E doc \in CVInputs : html' = doc
    /\ cvBaseURL' = env
    /\ nodeIdx' = 1
    /\ pieces' = <<>>
    /\ imageURLs' = <<>>
    /\ cvOut' = ""
    /\ requests' = <<>>
    /\ pc' = "cv_loop"
    /\ UNCHANGED <<auxVars, env, ytVars, ppVars>>

\* converter.ConvertString reaches the next element and renders it
ConvertHTMLToMarkdown_Node ==
    /\ pc = "cv_loop"
    /\ nodeIdx <= Len(html)
    /\ \E resp \in IF \E c \in Range(AnchorsOf(html[nodeIdx])) : Sends(c, cvBaseURL)
                   THEN UNION {ClientGet(Attr(c, "href")) : c \in Range(AnchorsOf(html[nodeIdx]))}
                   ELSE {NoResponse} :
           /\ \E r \in {ApplyRules(html[nodeIdx], cvBaseURL, resp)} :
                  /\ pieces' = Append(pieces, r.md)
                  /\ imageURLs' = imageURLs \o r.urls
           /\ requests' = Append(requests, RequestsOf(html[nodeIdx], cvBaseURL, resp))
    /\ nodeIdx' = nodeIdx + 1
    /\ UNCHANGED <<auxVars, pc, env, ytVars, ppVars, html, cvBaseURL, cvOut>>

\* ConvertString has returned: call processYouTubeShortcodes(markdown)
ConvertHTMLToMarkdown_Shortcodes ==
    /\ pc = "cv_loop"
    /\ nodeIdx > Len(html)
    /\ content' = Concat(pieces)
    /\ result' = Concat(pieces)
    /\ caller' = "convert"
    /\ pc' = "yt_find"
    /\ UNCHANGED <<auxVars, env, startIndex, endIndex, ppVars, cvVars>>

\* return markdown, imageURLs, nil
ConvertHTMLToMarkdown_Return ==
    /\ pc = "cv_return"
    /\ cvOut' = result
    /\ pc' = "cv_done"
    /\ UNCHANGED <<auxVars, env, ytVars, ppVars, html, cvBaseURL, nodeIdx, pieces, imageURLs, requests>>

(***************************************************************************)
(* parseGalleryIDs (postprocessing.go), called on its own.                 *)
(***************************************************************************)
parseGalleryIDs_Call ==
    /\ pc = "idle"
    /\ \/ \E elems \in SeqsUpTo(IDElems, MaxIDs) \ {<<>>}, head \in GalleryHeads, tail \in GalleryTails :
              /\ pgElems' = elems
              /\ pgArg' = head \o Join(Texts(elems), ",") \o tail
       \/ \E marker \in NoIDsMarkers :
              /\ pgElems' = <<>>
              /\ pgArg' = marker
    /\ pgRet' = parseGalleryIDs(pgArg')
    /\ pc' = "pg_done"
    /\ UNCHANGED <<env, rlVars, ytVars, ppVars, cvVars, fmVars, pcVars, ccVars>>

(***************************************************************************)
(* The rule for figure (markdown.go), as the converter calls it on one     *)
(* element, and extractYouTubeVideoID (markdown.go).                       *)
(***************************************************************************)
figureRule_Call ==
    /\ pc = "idle"
    /\ fgNode' \in Figures
    /\ fgRet' = figureRule(fgNode', env)
    /\ pc' = "fg_done"
    /\ UNCHANGED <<env, ytVars, ppVars, cvVars, pgVars, fmVars, pcVars, ccVars, idArg, idRet>>

extractYouTubeVideoID_Call ==
    /\ pc = "idle"
    /\ idArg' \in VideoURLs
    /\ idRet' = extractYouTubeVideoID(idArg')
    /\ pc' = "id_done"
    /\ UNCHANGED <<env, ytVars, ppVars, cvVars, pgVars, fmVars, pcVars, ccVars, fgNode, fgRet>>

(***************************************************************************)
(* GenerateFrontmatter (markdown.go), as processContent calls it.          *)
(***************************************************************************)
GenerateFrontmatter_Call ==
    /\ pc = "idle"
    /\ \E title \in TitleInputs, published \in PublishInputs, updated \in DateInputs, tags \in SeqsUpTo(TagValues, MaxTags), image \in FeaturedImages :
           /\ fmIn' = [title |-> title, published |-> published, updated |-> updated]
           /\ fmPost' = [Title |-> title.text, PublishedDate |-> published.text, UpdatedDate |-> updated.text, Tags |-> tags, FeaturedImage |-> image]
    /\ fmNow' \in NowValues
    /\ fmRet' = Frontmatter(fmPost', fmNow')
    /\ pc' = "fm_done"
    /\ UNCHANGED <<env, rlVars, ytVars, ppVars, cvVars, pgVars, pcVars, ccVars>>

(***************************************************************************)
(* processContent (main.go).                                               *)
(***************************************************************************)
processContent_Call ==
    /\ pc = "idle"
    /\ pcContent' \in PCInputs
    /\ pcIdx' = 1
    /\ pcPath' = ""
    /\ allImageURLs' = <<>>
    /\ pcFiles' = <<>>
    /\ pcOutcome' = <<>>
    /\ pcAdded' = <<>>
    /\ pcRet' = <<>>
    /\ pc' = "pc_loop"
    /\ UNCHANGED <<env, rlVars, ytVars, ppVars, cvVars, pgVars, fmVars, ccVars>>

\* the iteration ends here: continue
Continue(outcome, added) ==
    /\ pcOutcome' = Append(pcOutcome, outcome)
    /\ pcAdded' = Append(pcAdded, added)
    /\ pcIdx' = pcIdx + 1
    /\ pc' = "pc_loop"

\* an iteration up to the call of ConvertHTMLToMarkdown: the URL of the
\* item, its path, the HTML file
processContent_Item ==
    /\ pc = "pc_loop"
    /\ pcIdx <= Len(pcContent)
    /\ \E got \in GetURL(pcContent[pcIdx].ID), mkdirFails \in BOOLEAN, writeFails \in BOOLEAN :
           IF got.err
           THEN Continue("no url", <<>>) /\ UNCHANGED <<pcPath, pcFiles, cvVars>>
           ELSE IF URLPath(got.url).err
           THEN Continue("bad url", <<>>) /\ UNCHANGED <<pcPath, pcFiles, cvVars>>
           ELSE /\ pcPath' = ItemPath(URLPath(got.url).path)
                /\ IF mkdirFails
                   THEN Continue("no html directory", <<>>) /\ UNCHANGED <<pcFiles, cvVars>>
                   ELSE IF writeFails
                   THEN Continue("no html file", <<>>) /\ UNCHANGED <<pcFiles, cvVars>>
                   ELSE /\ pcFiles' = Append(pcFiles, [item |-> pcIdx, path |-> htmlOutputDir \o "/" \o pcPath' \o ".html", data |-> pcContent[pcIdx].Content])
                        /\ html' = pcContent[pcIdx].Content
                        /\ cvBaseURL' = env
                        /\ nodeIdx' = 1
                        /\ pieces' = <<>>
                        /\ imageURLs' = <<>>
                        /\ cvOut' = ""
                        /\ requests' = <<>>
                        /\ pc' = "cv_loop"
                        /\ UNCHANGED <<pcIdx, pcOutcome, pcAdded>>
    /\ UNCHANGED <<env, rlVars, ytVars, ppVars, pgVars, fmVars, ccVars, pcContent, allImageURLs, pcRet>>

\* converter.ConvertString returns an error: return "", nil, err
ConvertHTMLToMarkdown_Error ==
    /\ pc = "cv_loop"
    /\ cvOut' = ""
    /\ imageURLs' = <<>>
    /\ pc' = "cv_failed"
    /\ UNCHANGED <<auxVars, env, ytVars, ppVars, html, cvBaseURL, nodeIdx, pieces, requests>>

\* ConvertHTMLToMarkdown has returned: the rest of the iteration
processContent_Converted ==
    /\ pc \in {"cv_done", "cv_failed"}
    /\ pcIdx >= 1
    /\ allImageURLs' = Collected(allImageURLs, pc = "cv_failed", imageURLs, pcContent[pcIdx].FeaturedImage)
    /\ \E now \in NowValues, mkdirFails \in BOOLEAN, writeFails \in BOOLEAN :
           \E added \in {SubSeq(allImageURLs', Len(allImageURLs) + 1, Len(allImageURLs'))} :
               IF pc = "cv_failed"
               THEN Continue("not converted", added) /\ UNCHANGED pcFiles
               ELSE IF mkdirFails
               THEN Continue("no mdx directory", added) /\ UNCHANGED pcFiles
               ELSE IF writeFails
               THEN Continue("no mdx file", added) /\ UNCHANGED pcFiles
               ELSE /\ Continue("written", added)
                    /\ pcFiles' = Append(pcFiles, [item |-> pcIdx, path |-> outputDir \o "/" \o pcPath \o ".mdx", data |-> Frontmatter(pcContent[pcIdx], now) \o cvOut])
    /\ UNCHANGED <<env, rlVars, ytVars, ppVars, cvVars, pgVars, fmVars, ccVars, pcContent, pcPath, pcRet>>

\* the loop is over: return allImageURLs
processContent_Return ==
    /\ pc = "pc_loop"
    /\ pcIdx > Len(pcContent)
    /\ pcRet' = allImageURLs
    /\ pc' = "pc_done"
    /\ UNCHANGED <<env, rlVars, ytVars, ppVars, cvVars, pgVars, fmVars, ccVars, pcContent, pcIdx, pcPath, allImageURLs, pcFiles, pcOutcome, pcAdded>>

(***************************************************************************)
(* Concurrent calls of ConvertHTMLToMarkdown and PostProcessMarkdownLines, *)
(* one goroutine per call.  A step is one element or one line; the only    *)
(* things two calls have in common are the environment and the package's   *)
(* http client and database handle, which no call writes.                  *)
(***************************************************************************)
Concurrent_ConvertCall ==
    /\ pc = "idle"
    /\ \E p \in Calls :
           /\ calls[p].pc = "idle"
           /\ \E doc \in CCDocs(p) :
                  calls' = [calls EXCEPT ![p] = [NoCall EXCEPT !.fn = "ConvertHTMLToMarkdown", !.pc = "loop", !.html = doc, !.baseURL = env, !.idx = 1]]
           /\ lists' = [lists EXCEPT ![Local(p)] = <<>>]
    /\ UNCHANGED <<pc, env, rlVars, ytVars, ppVars, cvVars, pgVars, fmVars, pcVars>>

Concurrent_PostProcessCall ==
    /\ pc = "idle"
    /\ \E p \in Calls :
           /\ calls[p].pc = "idle"
           /\ \E md \in CCTexts(p) :
                  calls' = [calls EXCEPT ![p] = [NoCall EXCEPT !.fn = "PostProcessMarkdownLines", !.pc = "loop", !.markdown = md, !.baseURL = IF env = "" THEN defaultBaseURL ELSE env, !.splittedMd = Split(md, "\n"), !.idx = 1]]
           /\ lists' = [lists EXCEPT ![Local(p)] = <<>>]
    /\ UNCHANGED <<pc, env, rlVars, ytVars, ppVars, cvVars, pgVars, fmVars, pcVars>>

Concurrent_Node ==
    /\ \E p \in Calls :
           /\ calls[p].fn = "ConvertHTMLToMarkdown"
           /\ calls[p].pc = "loop"
           /\ calls[p].idx <= Len(calls[p].html)
           /\ \E r \in {ApplyRules(calls[p].html[calls[p].idx], calls[p].baseURL, NoResponse)} :
                  /\ calls' = [calls EXCEPT ![p].pieces = Append(@, r.md), ![p].idx = @ + 1]
                  /\ lists' = [lists EXCEPT ![Local(p)] = @ \o r.urls]
    /\ UNCHANGED <<pc, env, rlVars, ytVars, ppVars, cvVars, pgVars, fmVars, pcVars>>

Concurrent_ConvertReturn ==
    /\ \E p \in Calls :
           /\ calls[p].fn = "ConvertHTMLToMarkdown"
           /\ calls[p].pc = "loop"
           /\ calls[p].idx > Len(calls[p].html)
           /\ \E r \in {ShortcodesLoop(Concat(calls[p].pieces))} :
                  /\ r.returns
                  /\ calls' = [calls EXCEPT ![p].pc = "done", ![p].text = r.result, ![p].list = lists[Local(p)]]
    /\ UNCHANGED <<pc, env, rlVars, ytVars, ppVars, cvVars, pgVars, fmVars, pcVars, lists>>

Concurrent_Line ==
    /\ \E p \in Calls :
           /\ calls[p].fn = "PostProcessMarkdownLines"
           /\ calls[p].pc = "loop"
           /\ calls[p].idx <= Len(calls[p].splittedMd)
           /\ \E answer \in IF CallsLookup(calls[p].splittedMd[calls[p].idx])
                            THEN GetImageURLsFromDB(parseGalleryIDs(NormalizedLine(calls[p].splittedMd[calls[p].idx])).ids)
                            ELSE {NoLookup} :
                  \E step \in {LineStep(calls[p].splittedMd[calls[p].idx], calls[p].baseURL, answer.urls)} :
                      /\ calls' = [calls EXCEPT ![p].splittedMd[calls[p].idx] = step.text, ![p].answers = Append(@, answer), ![p].idx = @ + 1]
                      /\ lists' = [lists EXCEPT ![Local(p)] = @ \o step.media]
    /\ UNCHANGED <<pc, env, rlVars, ytVars, ppVars, cvVars, pgVars, fmVars, pcVars>>

Concurrent_PostProcessReturn ==
    /\ \E p \in Calls :
           /\ calls[p].fn = "PostProcessMarkdownLines"
           /\ calls[p].pc = "loop"
           /\ calls[p].idx > Len(calls[p].splittedMd)
           /\ calls' = [calls EXCEPT ![p].pc = "done", ![p].text = AddImports(Join(calls[p].splittedMd, "\n")), ![p].list = lists[Local(p)]]
    /\ UNCHANGED <<pc, env, rlVars, ytVars, ppVars, cvVars, pgVars, fmVars, pcVars, lists>>

Next ==
    \/ processYouTubeShortcodes_Call
    \/ processYouTubeShortcodes_Find
    \/ processYouTubeShortcodes_Splice
    \/ PostProcessMarkdownLines_Call
    \/ PostProcessMarkdownLines_CallOnOutput
    \/ PostProcessMarkdownLines_Line
    \/ PostProcessMarkdownLines_Return
    \/ ConvertHTMLToMarkdown_Call
    \/ ConvertHTMLToMarkdown_Node
    \/ ConvertHTMLToMarkdown_Shortcodes
    \/ ConvertHTMLToMarkdown_Return

Spec == Init /\ [][Next]_vars

\* the converter and its bracket-shortcode pass, without the post-processor
ConvertNext ==
    \/ processYouTubeShortcodes_Call
    \/ processYouTubeShortcodes_Find
    \/ processYouTubeShortcodes_Splice
    \/ ConvertHTMLToMarkdown_Call
    \/ ConvertHTMLToMarkdown_Node
    \/ ConvertHTMLToMarkdown_Shortcodes
    \/ ConvertHTMLToMarkdown_Return

ConvertSpec == Init /\ [][ConvertNext]_vars

\* parseGalleryIDs on its own
ParseNext == parseGalleryIDs_Call

ParseSpec == Init /\ [][ParseNext]_vars

\* the post-processor on lines that mix shortcodes and text
MixedNext ==
    \/ PostProcessMarkdownLines_CallOnMixed
    \/ PostProcessMarkdownLines_Line
    \/ PostProcessMarkdownLines_Return

MixedSpec == Init /\ [][MixedNext]_vars

\* the figure rule and extractYouTubeVideoID on their own
RuleNext ==
    \/ figureRule_Call
    \/ extractYouTubeVideoID_Call

RuleSpec == Init /\ [][RuleNext]_vars

\* GenerateFrontmatter alone
FrontmatterNext == GenerateFrontmatter_Call

FrontmatterSpec == Init /\ [][FrontmatterNext]_vars

\* processContent and what it calls
ProcessNext ==
    \/ processContent_Call
    \/ processContent_Item
    \/ ConvertHTMLToMarkdown_Node
    \/ ConvertHTMLToMarkdown_Error
    \/ ConvertHTMLToMarkdown_Shortcodes
    \/ processYouTubeShortcodes_Find
    \/ processYouTubeShortcodes_Splice
    \/ ConvertHTMLToMarkdown_Return
    \/ processContent_Converted
    \/ processContent_Return

ProcessSpec == Init /\ [][ProcessNext]_vars

\* the pipeline called concurrently
ConcurrentNext ==
    \/ Concurrent_ConvertCall
    \/ Concurrent_PostProcessCall
    \/ Concurrent_Node
    \/ Concurrent_ConvertReturn
    \/ Concurrent_Line
    \/ Concurrent_PostProcessReturn

ConcurrentSpec == Init /\ [][ConcurrentNext]_vars

\* processYouTubeShortcodes alone, running to completion: a call that can
\* take a step takes it
YTNext ==
    \/ processYouTubeShortcodes_Call
    \/ processYouTubeShortcodes_Find
    \/ processYouTubeShortcodes_Splice

YTFairSpec == Init /\ [][YTNext]_vars /\ WF_vars(YTNext)

(***************************************************************************)
(* Vocabulary of the properties.                                           *)
(***************************************************************************)
Last(q) == q[Len(q)]

\* the lines of the argument of the running PostProcessMarkdownLines call
InputLines == Split(markdown, "\n")

\* the lines the loop has completed
Processed == 1..Len(branches)

\* the patterns of the four line transforms, on the normalised line
MatchesYouTube(raw) == isYouTubeLine(NormalizedLine(raw))
MatchesGallery(raw) == galleryRe(NormalizedLine(raw))
MatchesAudio(raw) == audioRe(NormalizedLine(raw)) # <<>>
MatchesVideo(raw) == videoRe(NormalizedLine(raw)) # <<>>

MatchesNone(raw) ==
    ~MatchesYouTube(raw) /\ ~MatchesGallery(raw) /\ ~MatchesAudio(raw) /\ ~MatchesVideo(raw)

\* u with the base URL removed from its front
Stripped(u, base) ==
    IF Len(u) >= Len(base) /\ SubSeq(u, 1, Len(base)) = base
    THEN SubSeq(u, Len(base) + 1, Len(u)) ELSE u

\* the src values of the media embeds of a text, in text order: gallery
\* images <img src="X"/> and audio or video sources <source src="X" type=
EmbedSrcs[s \in STRING] ==
    LET i1 == Index(s, "<img src=\"")
        i2 == Index(s, "<source src=\"")
        img == i1 # 0 /\ (i2 = 0 \/ i1 < i2)
        j == IF img THEN i1 + 10 ELSE i2 + 13
        e == j + NonQuoteRun[s, j]
        counts == IF img THEN HasAt(s, e, "\"/>") ELSE HasAt(s, e, "\" type=")
    IN  IF i1 = 0 /\ i2 = 0 THEN <<>>
        ELSE (IF counts THEN <<Sub(s, j, e - 1)>> ELSE <<>>) \o EmbedSrcs[From(s, e)]

(***************************************************************************)
(* C1: processYouTubeShortcodes terminates on every input text: a call     *)
(* that has been entered eventually leaves its loop and returns.           *)
(* Fails: a shortcode whose URL yields no video ID is spliced back         *)
(* unchanged and found again by the next iteration.                        *)
(***************************************************************************)
C1_Terminates == (pc \in {"yt_find", "yt_splice"}) ~> (pc \notin {"yt_find", "yt_splice"})

(***************************************************************************)
(* C2: when PostProcessMarkdownLines returns, the media list and the media *)
(* embeds of the returned text correspond by position: same length, and    *)
(* the k-th queued URL with the base URL stripped is the src of the k-th   *)
(* embed.  (Stated for a call on converter output; the text a second run   *)
(* starts from already holds embeds.)  Fails on a line that holds a        *)
(* gallery and an audio or video shortcode.                                *)
(***************************************************************************)
C2_MediaMatchEmbeds ==
    (pc = "pp_done" /\ ~rerun) =>
        /\ Len(EmbedSrcs[out]) = Len(mediaURLs)
        /\ \A k \in 1..Len(mediaURLs) :
               k <= Len(EmbedSrcs[out]) =>
                   Stripped(mediaURLs[k], ppBaseURL) = EmbedSrcs[out][k]

(***************************************************************************)
(* C3 (as stated): a URL that does not begin with the base URL is never    *)
(* appended to the media list of the post-processor or of the converter,   *)
(* and it appears fully qualified and unchanged in the emitted text.       *)
(* Fails in its first half: both stages queue every URL they find.         *)
(***************************************************************************)
\* the elements the converter has rendered
Rendered == 1..Len(pieces)

IsImageBlock(n) ==
    /\ n.tag \in {"p", "span", "h1", "h2", "h3", "h4", "h5", "h6"}
    /\ Len(n.children) = 1
    /\ n.children[1].tag = "img"

IsLinkFigure(n) ==
    /\ n.tag = "figure"
    /\ Len(n.children) = 1
    /\ n.children[1].tag = "a"

\* the embeds a line ends up with show these queued URLs: all of them
\* after a gallery expansion, the last one after an audio or video embed
ShownOnLine(k) ==
    IF branches[k] = <<>> \/ Last(branches[k]) = "youtube" THEN <<>>
    ELSE IF Last(branches[k]) = "gallery" THEN queued[k]
    ELSE <<Last(queued[k])>>

C3_ShownQualified ==
    /\ pc = "pp_done" => \A k \in Processed : \A j \in 1..Len(ShownOnLine(k)) :
           ~HasPrefix(ShownOnLine(k)[j], ppBaseURL) =>
               Contains(splittedMd[k], "src=\"" \o ShownOnLine(k)[j] \o "\"")
    /\ \A k \in Rendered :
           /\ (IsImageBlock(html[k]) /\ ~HasPrefix(Attr(html[k].children[1], "src"), cvBaseURL)) =>
                  Contains(pieces[k], "src=\"" \o Attr(html[k].children[1], "src") \o "\"")
           /\ (IsLinkFigure(html[k]) /\ ~HasPrefix(Attr(html[k].children[1], "href"), cvBaseURL)) =>
                  Contains(pieces[k], "src=\"/" \o Attr(html[k].children[1], "href") \o "\"")

C3_NeverQueued ==
    /\ \A k \in 1..Len(mediaURLs) : HasPrefix(mediaURLs[k], ppBaseURL)
    /\ \A k \in 1..Len(imageURLs) : HasPrefix(imageURLs[k], cvBaseURL)

SkippedLine(raw) == MatchesGallery(raw) /\ parseGalleryIDs(NormalizedLine(raw)).err

C3_AlwaysQueued ==
    /\ pc = "pp_done" => \A k \in Processed :
           /\ (MatchesAudio(InputLines[k]) /\ ~SkippedLine(InputLines[k])) =>
                  /\ queued[k] # <<>>
                  /\ Last(queued[k]) = audioRe(NormalizedLine(InputLines[k]))[1]
                  /\ Last(queued[k]) \in Range(mediaURLs)
           /\ (/\ MatchesVideo(InputLines[k])
               /\ ~MatchesAudio(InputLines[k])
               /\ ~SkippedLine(InputLines[k])) =>
                  /\ queued[k] # <<>>
                  /\ Last(queued[k]) = videoRe(NormalizedLine(InputLines[k]))[3]
                  /\ Last(queued[k]) \in Range(mediaURLs)
           /\ \A j \in 1..Len(lookups[k]) :
                  \A u \in Range(lookups[k][j].urls) : u \in Range(mediaURLs)
    /\ \A k \in Rendered :
           /\ IsImageBlock(html[k]) => Attr(html[k].children[1], "src") \in Range(imageURLs)
           /\ IsLinkFigure(html[k]) => Attr(html[k].children[1], "href") \in Range(imageURLs)

FirstApplicable(raw) ==
    IF MatchesYouTube(raw) THEN <<"youtube">>
    ELSE IF MatchesGallery(raw) THEN <<"gallery">>
    ELSE IF MatchesAudio(raw) THEN <<"audio">>
    ELSE IF MatchesVideo(raw) THEN <<"video">>
    ELSE <<>>

C4_MutuallyExclusive ==
    pc = "pp_done" =>
        \A k \in Processed :
            /\ Len(branches[k]) <= 1
            /\ branches[k] # <<>> => branches[k] = FirstApplicable(InputLines[k])

(***************************************************************************)
(* C5: PostProcessMarkdownLines is idempotent: called on its own output,   *)
(* when no line of that output matches a shortcode pattern any more, it    *)
(* returns the text it was given, and an import line that is present is    *)
(* not inserted again.  Fails: the import line is prepended whenever the   *)
(* text holds an embed tag, also when the text already starts with it.     *)
(***************************************************************************)
C5_Idempotent ==
    (/\ pc = "pp_done"
     /\ rerun
     /\ \A k \in 1..Len(InputLines) : MatchesNone(InputLines[k])) =>
        /\ out = markdown
        /\ ~Contains(out, youTubeImport \o youTubeImport)

(***************************************************************************)
(* C6: on a text no line of which matches the YouTube bare-link, gallery,  *)
(* audio or video pattern, PostProcessMarkdownLines returns the text       *)
(* unchanged, white space and bracket escapes included, behind the import  *)
(* lines it prepends, and returns an empty media list.                     *)
(***************************************************************************)
C6_IdentityWithoutShortcodes ==
    (pc = "pp_done" /\ \A k \in 1..Len(InputLines) : MatchesNone(InputLines[k])) =>
        /\ out \in {markdown,
                    youTubeImport \o markdown,
                    imageImport \o markdown,
                    imageImport \o youTubeImport \o markdown}
        /\ mediaURLs = <<>>

\* a two-line text with outer blanks and escaped brackets comes back as it was
C6_Witness ==
    /\ pc = "pp_done"
    /\ markdown = "  indented \\[note\\] text \n<img src=\"/wp-content/i.jpg\" alt=\"\" />"
    /\ out = markdown
    /\ mediaURLs = <<>>

(***************************************************************************)
(* C7: when the bracket-shortcode pass returns, every shortcode            *)
(* [youtube]URL[/youtube] of the text it was given (a start marker paired  *)
(* with the first end marker after it, left to right) whose URL has the    *)
(* form youtu.be/<id> or youtube.com/watch?v=<id> has been replaced by     *)
(* exactly one YouTube embed for <id>, the query suffix removed; and a     *)
(* text whose first start marker has no end marker after it is returned    *)
(* unmodified.  The pass runs on the converted Markdown, where the         *)
(* brackets of the markers are backslash-escaped; a paragraph              *)
(* [youtube]https://youtu.be/xyz789?t=5[/youtube] of the HTML comes out of *)
(* the conversion as one embed for xyz789 with no marker left.             *)
(***************************************************************************)
\* the text up to the first of the given delimiters
UpTo[s \in STRING, delims \in SUBSET STRING] ==
    IF s = "" \/ Sub(s, 1, 1) \in delims THEN ""
    ELSE Sub(s, 1, 1) \o UpTo[From(s, 2), delims]

\* <id> of a URL of the two forms, "" for any other text
IdOfURL(url) ==
    IF Index(url, "youtu.be/") # 0
    THEN UpTo[From(url, Index(url, "youtu.be/") + 9), {"?", "&"}]
    ELSE IF Index(url, "youtube.com/watch?v=") # 0
    THEN UpTo[From(url, Index(url, "youtube.com/watch?v=") + 20), {"&"}]
    ELSE ""

\* the text with its shortcodes replaced, one left-to-right pass
WithEmbeds[s \in STRING] ==
    LET b == Index(s, startTag)
        e == IF b = 0 THEN 0 ELSE Index(From(s, b + Len(startTag)), endTag)
        url == Sub(s, b + Len(startTag), b + Len(startTag) + e - 2)
        after == From(s, b + Len(startTag) + e - 1 + Len(endTag))
    IN  IF b = 0 \/ e = 0 THEN s
        ELSE IF IdOfURL(url) = ""
        THEN Sub(s, 1, b + Len(startTag) + e - 2 + Len(endTag)) \o WithEmbeds[after]
        ELSE Sub(s, 1, b - 1)
               \o "\n\n<YouTube id=\"https://youtu.be/" \o IdOfURL(url) \o "\" />\n\n"
               \o WithEmbeds[after]

YouTubeForms ==
    <<"https://www.youtube.com/watch?v=", "https://www.youtube.com/",
      "https://youtube.com/", "https://youtu.be/">>

\* the first token of the trimmed, unescaped line
FirstToken(raw) == UpTo[NormalizedLine(raw), {" "}]

IsYouTubeURL(token) == \E f \in 1..Len(YouTubeForms) : HasPrefix(token, YouTubeForms[f])

\* ID: what follows the first (longest) form the token begins with
IdOfToken(token) ==
    LET f == Min({g \in 1..Len(YouTubeForms) : HasPrefix(token, YouTubeForms[g])})
    IN  From(token, Len(YouTubeForms[f]) + 1)

OnlyYouTubeLine(raw) ==
    /\ IsYouTubeURL(FirstToken(raw))
    /\ ~MatchesGallery(raw) /\ ~MatchesAudio(raw) /\ ~MatchesVideo(raw)

YouTubeTag(raw) == "<YouTube id=\"https://youtu.be/" \o IdOfToken(FirstToken(raw)) \o "\" />"

PlainID(id) ==
    ~Contains(id, "https://www.youtube.com/") /\ ~Contains(id, "https://youtube.com/")

Quoted(raw) == Split(NormalizedLine(raw), "\"")

IsNumber(s) == s # "" /\ DigitRun[s, 1] = Len(s)

IsAudioLine(raw) ==
    /\ Len(Quoted(raw)) = 3
    /\ Quoted(raw)[1] = "[audio mp3="
    /\ Quoted(raw)[2] # ""
    /\ Quoted(raw)[3] = "][/audio]"

IsVideoLine(raw) ==
    /\ Len(Quoted(raw)) = 7
    /\ Quoted(raw)[1] = "[video width=" /\ IsNumber(Quoted(raw)[2])
    /\ Quoted(raw)[3] = " height=" /\ IsNumber(Quoted(raw)[4])
    /\ Quoted(raw)[5] = " mp4=" /\ Quoted(raw)[6] # ""
    /\ Quoted(raw)[7] = "][/video]"

HasSuffix(s, p) == Len(s) >= Len(p) /\ From(s, Len(s) - Len(p) + 1) = p

C9_AudioVideoEmbed ==
    pc = "pp_done" =>
        \A k \in Processed :
            /\ IsAudioLine(InputLines[k]) =>
                   /\ HasPrefix(splittedMd[k], "<audio controls>\n")
                   /\ HasSuffix(splittedMd[k], "\n</audio>")
                   /\ EmbedSrcs[splittedMd[k]] = <<Stripped(Quoted(InputLines[k])[2], ppBaseURL)>>
                   /\ queued[k] = <<Quoted(InputLines[k])[2]>>
            /\ IsVideoLine(InputLines[k]) =>
                   /\ HasPrefix(splittedMd[k],
                                "<video controls width=\"" \o Quoted(InputLines[k])[2]
                                  \o "\" height=\"" \o Quoted(InputLines[k])[4] \o "\">\n")
                   /\ HasSuffix(splittedMd[k], "\n</video>")
                   /\ EmbedSrcs[splittedMd[k]] = <<Stripped(Quoted(InputLines[k])[6], ppBaseURL)>>
                   /\ queued[k] = <<Quoted(InputLines[k])[6]>>
            /\ (/\ ppBaseURL = "https://example.com"
                /\ InputLines[k] = "[audio mp3=\"https://example.com/wp-content/a.mp3\"][/audio]") =>
                   /\ Contains(splittedMd[k], "<source src=\"/wp-content/a.mp3\" type=\"audio/mpeg\"/>")
                   /\ queued[k] = <<"https://example.com/wp-content/a.mp3">>

\* the audio example of the specification, then a video shortcode
C9_Witness ==
    /\ pc = "pp_done"
    /\ ppBaseURL = "https://example.com"
    /\ Len(InputLines) = 2
    /\ IsAudioLine(InputLines[1])
    /\ IsVideoLine(InputLines[2])
    /\ mediaURLs = <<"https://example.com/wp-content/a.mp3", "https://example.com/wp-content/v.mp4">>
    /\ EmbedSrcs[out] = <<"/wp-content/a.mp3", "/wp-content/v.mp4">>

(***************************************************************************)
(* C10: for a gallery line whose ID list parses (and which holds no audio  *)
(* or video shortcode), the line becomes one image embed per URL the       *)
(* lookup returned, in the lookup's order, each showing the URL with the   *)
(* base prefix stripped; the returned URLs are appended unmodified to the  *)
(* media list in that order; when the lookup returns no URL the line is    *)
(* empty and nothing is queued.                                            *)
(***************************************************************************)
RECURSIVE Flatten(_)
Flatten(qs) == IF qs = <<>> THEN <<>> ELSE qs[1] \o Flatten(Tail(qs))

IsGalleryLine(raw) ==
    /\ MatchesGallery(raw)
    /\ ~parseGalleryIDs(NormalizedLine(raw)).err
    /\ ~MatchesAudio(raw)
    /\ ~MatchesVideo(raw)

C11_MalformedGallerySkipped ==
    pc = "pp_done" =>
        /\ Len(branches) = Len(InputLines)
        /\ \A k \in Processed :
               (SkippedLine(InputLines[k]) /\ ~MatchesYouTube(InputLines[k])) =>
                   /\ lookups[k] = <<>>
                   /\ queued[k] = <<>>
                   /\ splittedMd[k] = InputLines[k]
                   /\ \A j \in (k + 1)..Len(InputLines) :
                          IsAudioLine(InputLines[j]) =>
                              /\ HasPrefix(splittedMd[j], "<audio controls>\n")
                              /\ queued[j] = <<Quoted(InputLines[j])[2]>>

\* a malformed gallery line, indented and escaped, then an audio shortcode
C11_Witness ==
    /\ pc = "pp_done"
    /\ markdown = " \\[gallery ids=\"3,x\"\\]\n[audio mp3=\"https://cdn.other.org/b.mp3\"][/audio]"
    /\ splittedMd[1] = " \\[gallery ids=\"3,x\"\\]"
    /\ lookups = <<<<>>, <<>>>>
    /\ mediaURLs = <<"https://cdn.other.org/b.mp3">>

(***************************************************************************)
(* C12: PostProcessMarkdownLines calls the gallery lookup at most once per *)
(* gallery shortcode line and never again for that line; when the lookup   *)
(* returns an error, no image is emitted and no URL is queued for that     *)
(* gallery (the line is empty unless an audio or video shortcode on it is  *)
(* expanded), and the remaining lines are still processed.                 *)
(***************************************************************************)
LookupFailed(k) == Len(lookups[k]) >= 1 /\ lookups[k][1].err

C12_OneLookupNoRetry ==
    /\ \A k \in 1..Len(lookups) :
           /\ Len(lookups[k]) <= 1
           /\ Len(lookups[k]) = 1 => MatchesGallery(InputLines[k])
    /\ pc = "pp_done" =>
           /\ Len(lookups) = Len(InputLines)
           /\ \A k \in Processed :
                  LookupFailed(k) =>
                      /\ ~Contains(splittedMd[k], "<img")
                      /\ IsGalleryLine(InputLines[k]) =>
                             splittedMd[k] = "" /\ queued[k] = <<>>
                      /\ \A u \in Range(queued[k]) :
                             \/ <<u>> = audioRe(NormalizedLine(InputLines[k]))
                             \/ (videoRe(NormalizedLine(InputLines[k])) # <<>>
                                 /\ u = videoRe(NormalizedLine(InputLines[k]))[3])
                      /\ \A j \in (k + 1)..Len(InputLines) :
                             IsAudioLine(InputLines[j]) =>
                                 queued[j] = <<Quoted(InputLines[j])[2]>>

\* a gallery whose lookup fails, then an audio shortcode that is expanded
C12_Witness ==
    /\ pc = "pp_done"
    /\ markdown = "\\[gallery ids=\"3,5\"\\]\n[audio mp3=\"https://cdn.other.org/b.mp3\"][/audio]"
    /\ LookupFailed(1)
    /\ lookups[1][1].ids = <<3, 5>>
    /\ splittedMd[1] = ""
    /\ mediaURLs = <<"https://cdn.other.org/b.mp3">>

(***************************************************************************)
(* C13 (as stated): for every input text that does not already contain the *)
(* YouTube import line, the returned text begins with exactly one YouTube  *)
(* import line if it contains a YouTube embed tag, however many, and       *)
(* contains no YouTube import line otherwise.  Fails: when the text also   *)
(* contains <Image, the image import line is put in front of it.           *)
(***************************************************************************)
youTubeImportLine == "import { YouTube } from 'astro-embed';"
imageImportLine == "import { Image } from 'astro:assets';"

\* the number of (non-overlapping) occurrences of p in s
Count[s \in STRING, p \in STRING] ==
    IF Index(s, p) = 0 THEN 0 ELSE 1 + Count[From(s, Index(s, p) + Len(p)), p]

C13_BeginsWithYouTubeImport ==
    (pc = "pp_done" /\ ~Contains(markdown, youTubeImportLine)) =>
        IF Contains(out, "<YouTube id=")
        THEN HasPrefix(out, youTubeImportLine) /\ Count[out, youTubeImportLine] = 1
        ELSE Count[out, youTubeImportLine] = 0

(***************************************************************************)
(* C13 (amended): for every input text that does not already contain the  *)
(* YouTube import line, the returned text contains exactly one YouTube     *)
(* import line if it contains a YouTube embed tag, however many, and none  *)
(* otherwise; the line stands at the very beginning of the text, or        *)
(* directly behind the image import line when the text contains <Image.    *)
(***************************************************************************)
C13_OneYouTubeImport ==
    (pc = "pp_done" /\ ~Contains(markdown, youTubeImportLine)) =>
        IF Contains(out, "<YouTube id=")
        THEN /\ Count[out, youTubeImportLine] = 1
             /\ IF Contains(out, "<Image")
                THEN HasPrefix(out, imageImportLine \o "\n\n" \o youTubeImportLine \o "\n\n")
                ELSE HasPrefix(out, youTubeImportLine \o "\n\n")
        ELSE Count[out, youTubeImportLine] = 0

\* two embeds and an Image tag: one YouTube import line, in second place
C13_Witness ==
    /\ pc = "pp_done"
    /\ markdown = "https://youtube.com/abc123\n<Image src={cover} alt=\"plain\" />"
    /\ out = imageImportLine \o "\n\n" \o youTubeImportLine \o "\n\n"
               \o "<YouTube id=\"https://youtu.be/abc123\" />\n<Image src={cover} alt=\"plain\" />"

FigureLinkEmbed(n, base) ==
    "\n\n<img src=\"" \o Stripped(Attr(n.children[1], "href"), base)
      \o "\" alt=\"" \o (IF n.children[1].text = "" THEN "Image" ELSE n.children[1].text)
      \o "\" />\n\n"

C15_FigureLinkEmbed ==
    /\ \A k \in Rendered :
           IsLinkFigure(html[k]) => pieces[k] = FigureLinkEmbed(html[k], cvBaseURL)
    /\ (pc = "cv_done" /\ Len(html) = 1 /\ IsLinkFigure(html[1])) =>
           imageURLs = <<Attr(html[1].children[1], "href")>>

(***************************************************************************)
(* C16: parseGalleryIDs returns the integers of the ids="..." attribute in *)
(* their written order and with the same count, surrounding spaces         *)
(* ignored ("3,5,7" gives 3, 5, 7); it returns an error when the marker    *)
(* has no ids="..." attribute, and an error with no partial list when any  *)
(* element is not an integer.                                              *)
(***************************************************************************)
AllIntegers(elems) == \A e \in 1..Len(elems) : elems[e].ok

C16_ParseGalleryIDs ==
    pc = "pg_done" =>
        IF pgElems = <<>> \/ ~AllIntegers(pgElems)
        THEN pgRet.err /\ pgRet.ids = <<>>
        ELSE /\ ~pgRet.err
             /\ pgRet.ids = [e \in 1..Len(pgElems) |-> pgElems[e].value]

\* three integers, one of them signed and one between spaces
C16_Witness ==
    /\ pc = "pg_done"
    /\ pgArg = "[gallery columns=\"1\" size=\"full\" ids=\"3,-2, 12 \"]"
    /\ pgRet = [err |-> FALSE, ids |-> <<3, 0 - 2, 12>>]

(***************************************************************************)
(* C17.                                                                    *)
(***************************************************************************)
InQuotes(s) == "\"" \o s \o "\""

RECURSIVE TagItems(_)
TagItems(tags) == IF tags = <<>> THEN <<>> ELSE <<InQuotes(tags[1])>> \o TagItems(Tail(tags))

\* the lines of the frontmatter of fmPost, the updatedDate line being there
\* when hasUpdated
FrontmatterLines(hasUpdated) ==
    <<"---",
      "title: " \o fmIn.title.quoted,
      "excerpt: \"\"",
      "publishDate: " \o InQuotes(IF fmIn.published.ok THEN fmIn.published.ymd ELSE fmNow.ymd)>>
    \o (IF hasUpdated THEN <<"updatedDate: " \o InQuotes(fmIn.updated.ymd)>> ELSE <<>>)
    \o <<"isFeatured: false",
         "tags: " \o (IF fmPost.Tags = <<>> THEN "[]" ELSE "[" \o Join(TagItems(fmPost.Tags), ", ") \o "]")>>
    \o (IF fmPost.FeaturedImage # "" THEN <<"featuredImage: " \o InQuotes(fmPost.FeaturedImage)>> ELSE <<>>)
    \o <<"seo: {}", "---", "", "">>

\* C17 as stated: the frontmatter is the lines title, excerpt, publishDate,
\* updatedDate, isFeatured, tags, featuredImage, seo in this order between
\* two --- lines, the updatedDate line there exactly when the last-modified
\* timestamp parsed, the featuredImage line exactly when an image is set,
\* no line left blank for an omitted field, the tags in input order with
\* duplicates, [] for none.
C17_UpdatedWhenParsed ==
    pc = "fm_done" => Split(fmRet, "\n") = FrontmatterLines(fmIn.updated.ok)

\* C17, amended: as above, but the updatedDate line is there exactly when
\* the last-modified timestamp parsed to a time other than the zero time
\* (0001-01-01 00:00:00 UTC), which GenerateFrontmatter takes for "no date".
C17_UpdatedWhenParsedNonZero ==
    pc = "fm_done" => Split(fmRet, "\n") = FrontmatterLines(fmIn.updated.ok /\ ~fmIn.updated.zero)

\* a post with two equal tags, a title to escape, no featured image and a
\* last-modified timestamp that does not parse: both optional lines omitted
C17_Witness ==
    /\ pc = "fm_done"
    /\ fmPost.Tags = <<"go", "go">>
    /\ fmPost.Title # "Hello"
    /\ fmPost.FeaturedImage = ""
    /\ ~fmIn.updated.ok
    /\ ~fmIn.published.ok
    /\ Len(Split(fmRet, "\n")) = 10

(***************************************************************************)
(* C18.                                                                    *)
(***************************************************************************)
\* the media URLs of a post: its featured image and the images of its body
PostURLs(post) ==
    {post.FeaturedImage} \cup {Attr(c, "src") : c \in UNION {Range(n.children) : n \in Range(post.Content)}}

IsMdx(f) == Len(f.path) >= 4 /\ HasAt(f.path, Len(f.path) - 3, ".mdx")

\* the items whose conversion returned an error
NotConverted == {i \in 1..Len(pcOutcome) : pcOutcome[i] = "not converted"}

\* C18: an item whose conversion returned an error has no .mdx file, has
\* appended nothing to the media list, and no URL of it is in the list;
\* the loop goes on with the next item, and the run returns the list with
\* every item of the argument visited.
C18_ConvertErrorSkipsDocument ==
    /\ \A i \in NotConverted :
           /\ \A f \in Range(pcFiles) : f.item = i => ~IsMdx(f)
           /\ pcAdded[i] = <<>>
           /\ Range(allImageURLs) \cap PostURLs(pcContent[i]) = {}
           /\ pcIdx > i
    /\ pc \in {"pc_loop", "pc_done"} => allImageURLs = Flatten(pcAdded)
    /\ pc = "pc_done" => Len(pcOutcome) = Len(pcContent) /\ pcRet = allImageURLs

\* the first of two posts was not converted (after one of its images had
\* been found), the second was written with its URLs returned
C18_Witness ==
    /\ pc = "pc_done"
    /\ pcOutcome = <<"not converted", "written">>
    /\ pcContent[1].FeaturedImage # ""
    /\ pcRet # <<>>
    /\ \E f \in Range(pcFiles) : f.item = 2 /\ IsMdx(f)

(***************************************************************************)
(* C19.                                                                    *)
(***************************************************************************)
\* ConvertHTMLToMarkdown run alone: the elements rendered in order
RECURSIVE AloneRender(_, _)
AloneRender(nodes, base) ==
    IF nodes = <<>> THEN [text |-> "", list |-> <<>>]
    ELSE [text |-> ApplyRules(nodes[1], base, NoResponse).md \o AloneRender(Tail(nodes), base).text,
          list |-> ApplyRules(nodes[1], base, NoResponse).urls \o AloneRender(Tail(nodes), base).list]

AloneConvert(doc, base) ==
    [text |-> ShortcodesLoop(AloneRender(doc, base).text).result, list |-> AloneRender(doc, base).list]

\* PostProcessMarkdownLines run alone, the lookups answering as in answers
RECURSIVE AloneLines(_, _, _)
AloneLines(lines, base, answers) ==
    IF lines = <<>> THEN [texts |-> <<>>, list |-> <<>>]
    ELSE [texts |-> <<LineStep(lines[1], base, answers[1].urls).text>> \o AloneLines(Tail(lines), base, Tail(answers)).texts,
          list |-> LineStep(lines[1], base, answers[1].urls).media \o AloneLines(Tail(lines), base, Tail(answers)).list]

AlonePostProcess(md, base, answers) ==
    [text |-> AddImports(Join(AloneLines(Split(md, "\n"), base, answers).texts, "\n")),
     list |-> AloneLines(Split(md, "\n"), base, answers).list]

Alone(c) ==
    IF c.fn = "ConvertHTMLToMarkdown" THEN AloneConvert(c.html, c.baseURL)
    ELSE AlonePostProcess(c.markdown, c.baseURL, c.answers)

\* the media references in the document of a call
OwnReferences(c) ==
    IF c.fn = "ConvertHTMLToMarkdown"
    THEN {Attr(k, "src") : k \in UNION {Range(n.children) : n \in Range(c.html)}}
           \cup {Attr(k, "href") : k \in UNION {Range(n.children) : n \in Range(c.html)}}
    ELSE {u \in Range(c.list) : Contains(c.markdown, u)}

\* C19: whatever the interleaving, a call that has returned has returned
\* the text and the media list it returns when run alone on its document,
\* and no media reference of its document is in the list of another call.
C19_NoInterference ==
    \A p \in Calls :
        calls[p].pc = "done" =>
            /\ calls[p].text = Alone(calls[p]).text
            /\ calls[p].list = Alone(calls[p]).list
            /\ \A q \in Calls \ {p} :
                   calls[q].pc = "done" => Range(calls[q].list) \cap OwnReferences(calls[p]) = {}

\* two calls have returned, one of each function, each with the media
\* references of its own document in its list
C19_Witness ==
    /\ calls[1].pc = "done" /\ calls[1].fn = "ConvertHTMLToMarkdown"
    /\ calls[2].pc = "done" /\ calls[2].fn = "PostProcessMarkdownLines"
    /\ Len(calls[1].list) = 2
    /\ Len(calls[2].list) >= 2
    /\ OwnReferences(calls[1]) # {} /\ OwnReferences(calls[2]) # {}

(***************************************************************************)
(* C20.                                                                    *)
(***************************************************************************)
HasEscape(s) == Contains(s, "\\[") \/ Contains(s, "\\]")

\* C20 as stated: no bracket escape of an input line is left in the
\* corresponding output line, whatever happens to the line otherwise.
C20_UnescapedOnEveryLine ==
    pc = "pp_done" => \A k \in Processed : ~HasEscape(splittedMd[k])

\* C20, amended: the bracket escapes are removed on the copy of the line
\* the patterns are matched against.  A line a transform rewrites is
\* recognised with its escapes read as brackets, and nothing of what is
\* written for it holds an escape (the trailing text of a YouTube line is
\* written unescaped); a line no transform rewrites is written back as it
\* was, its escapes kept.
C20_UnescapedWhereRewritten ==
    pc = "pp_done" =>
        \A k \in Processed :
            /\ branches[k] # <<>> => ~HasEscape(splittedMd[k])
            /\ branches[k] = <<>> => splittedMd[k] = InputLines[k]
            /\ MatchesNone(InputLines[k]) => branches[k] = <<>>
            /\ InputLines[k] = "https://youtu.be/abc123 \\[live\\]" =>
                   splittedMd[k] = "<YouTube id=\"https://youtu.be/abc123\" /> [live]"
            /\ InputLines[k] = " \\[video width=\"640\" height=\"360\" mp4=\"https://example.com/wp-content/v.mp4\"\\]\\[/video\\]" =>
                   HasPrefix(splittedMd[k], "<video controls width=\"640\" height=\"360\">")

\* an escaped YouTube line is rewritten without its escapes, an escaped
\* plain line keeps them
C20_Witness ==
    /\ pc = "pp_done"
    /\ markdown = "https://youtu.be/abc123 \\[live\\]\n  indented \\[note\\] text "
    /\ splittedMd = <<"<YouTube id=\"https://youtu.be/abc123\" /> [live]", "  indented \\[note\\] text ">>

(***************************************************************************)
(* C21.                                                                    *)
(***************************************************************************)
IsLink(n) == n.tag = "a" /\ HasAttr(n, "href")

\* the href of the k-th element, or where its request ended when one was
\* made and succeeded
Resolved(k) ==
    IF requests[k] # <<>> /\ ~requests[k][1].err THEN requests[k][1].url ELSE Attr(html[k], "href")

\* C21: an anchor is rendered [text](target), text being the anchor text
\* as it is and target the href (or the URL its redirects end at) with the
\* base URL removed from its front only; a target that does not begin with
\* the base URL is the href unchanged, also when the base URL occurs
\* further inside it.
C21_AnchorPrefixStripped ==
    \A k \in Rendered :
        IsLink(html[k]) =>
            /\ pieces[k] = "[" \o html[k].text \o "](" \o Stripped(Resolved(k), cvBaseURL) \o ")"
            /\ ~HasPrefix(Attr(html[k], "href"), cvBaseURL) =>
                   pieces[k] = "[" \o html[k].text \o "](" \o Attr(html[k], "href") \o ")"

(***************************************************************************)
(* C22.                                                                    *)
(***************************************************************************)
\* C22: client.Get is called for an anchor only when a base URL is
\* configured and the href begins with it; when the request fails, the
\* element is still rendered, from its href (the base URL in it rewritten
\* as in any target).
C22_RequestOnlyUnderBase ==
    \A k \in Rendered :
        /\ \A j \in 1..Len(requests[k]) :
               cvBaseURL # "" /\ HasPrefix(requests[k][j].href, cvBaseURL)
        /\ (IsLink(html[k]) /\ requests[k] # <<>> /\ requests[k][1].err) =>
               pieces[k] = "[" \o html[k].text \o "](" \o ReplaceAll(Attr(html[k], "href"), cvBaseURL, "/") \o ")"

(***************************************************************************)
(* C28.                                                                    *)
(***************************************************************************)
\* C28: with no base URL configured, an anchor is rendered with its href
\* as the target, character for character, and no request is made for it.
C28_NoBaseNoRewrite ==
    cvBaseURL = "" =>
        \A k \in Rendered :
            IsLink(html[k]) =>
                /\ pieces[k] = "[" \o html[k].text \o "](" \o Attr(html[k], "href") \o ")"
                /\ requests[k] = <<>>

(***************************************************************************)
(* C23.                                                                    *)
(***************************************************************************)
IsBlock(n) == n.tag \in {"p", "span", "h1", "h2", "h3", "h4", "h5", "h6"}

IsImageEmbed(md) == HasPrefix(md, "\n\n<img src=\"")

\* C23: a paragraph, heading or span is replaced by an image embed only
\* when an img is all it holds; a block with an img and other content,
\* text included, is not collapsed and its text is in what is rendered
\* for it; a collapsed block appends its img src to the media list once.
C23_CollapseOnlyChild ==
    \A k \in Rendered :
        IsBlock(html[k]) =>
            /\ IsImageEmbed(pieces[k]) =>
                   /\ html[k].text = ""
                   /\ Len(html[k].children) = 1
                   /\ html[k].children[1].tag = "img"
            /\ html[k].text # "" => Contains(pieces[k], html[k].text)
            /\ (IsImageEmbed(pieces[k]) /\ Len(html) = 1) =>
                   imageURLs = <<Attr(html[k].children[1], "src")>>

(***************************************************************************)
(* The figure rule: shapes and outcomes.                                   *)
(***************************************************************************)
\* the video ID of a URL text of the given form: what follows the form's
\* marker, up to the first ? or &
IDAfter(text, form) == Split(Split(SplitN2(text, form)[2], "?")[1], "&")[1]

\* a text with a recognizable YouTube URL: one of the two forms with an ID
Recognizable(text) ==
    \E form \in {"youtu.be/", "youtube.com/watch?v="} :
        Contains(text, form) /\ IDAfter(text, form) # ""

AudioShape(n) ==
    Len(n.children) = 1 /\ n.children[1].tag = "audio" /\ HasAttr(n.children[1], "src")

VideoShape(n) ==
    /\ Len(n.children) = 2
    /\ n.children[1].tag = "div"
    /\ n.children[2].tag = "figcaption"
    /\ Recognizable(TrimSpace(n.children[1].text))

AnchorShape(n) == Len(n.children) = 1 /\ n.children[1].tag = "a"

AudioOutcome(r) == r.ok /\ HasPrefix(r.md, "\n\n<audio controls src=")
VideoOutcome(r) == r.ok /\ HasPrefix(r.md, "\n\n<YouTube id=")
ImageOutcome(r) == r.ok /\ HasPrefix(r.md, "\n\n<img src=")
DeclineOutcome(r) == ~r.ok

\* C24: the figure rule gives the audio outcome to a figure of the audio
\* shape, else the YouTube outcome to one of the div+figcaption shape with a
\* recognizable YouTube URL, else the image outcome to one with a single
\* anchor, else it declines; exactly one outcome applies; declining appends
\* nothing to the media list, and neither does the YouTube outcome
C24_FigureOutcomeByShape ==
    pc = "fg_done" =>
        /\ AudioOutcome(fgRet) <=> AudioShape(fgNode)
        /\ VideoOutcome(fgRet) <=> ~AudioShape(fgNode) /\ VideoShape(fgNode)
        /\ ImageOutcome(fgRet) <=> ~AudioShape(fgNode) /\ ~VideoShape(fgNode) /\ AnchorShape(fgNode)
        /\ DeclineOutcome(fgRet) <=> ~AudioShape(fgNode) /\ ~VideoShape(fgNode) /\ ~AnchorShape(fgNode)
        /\ Cardinality({o \in {"audio", "video", "image", "decline"} :
                           \/ o = "audio" /\ AudioOutcome(fgRet)
                           \/ o = "video" /\ VideoOutcome(fgRet)
                           \/ o = "image" /\ ImageOutcome(fgRet)
                           \/ o = "decline" /\ DeclineOutcome(fgRet)}) = 1
        /\ DeclineOutcome(fgRet) => fgRet.urls = <<>>
        /\ VideoOutcome(fgRet) => fgRet.urls = <<>>

\* a figure with a YouTube URL and a caption has been given the YouTube
\* outcome
C24_Witness ==
    pc = "fg_done" /\ VideoShape(fgNode) /\ VideoOutcome(fgRet) /\ fgRet.urls = <<>>

\* a figure of no shape has been declined
C24_Declined ==
    pc = "fg_done" /\ Len(fgNode.children) = 2 /\ DeclineOutcome(fgRet)

\* the ID of a YouTube embed
EmbedID(md) == Split(Split(md, "<YouTube id=\"")[2], "\"")[1]

\* C25: the video ID extracted from a YouTube URL of either form stops at
\* the first ? or &: it contains neither, in the figure rule and in
\* extractYouTubeVideoID
C25_IDHasNoQuery ==
    /\ pc = "id_done" => ~Contains(idRet, "?") /\ ~Contains(idRet, "&")
    /\ pc = "fg_done" /\ VideoOutcome(fgRet) =>
           ~Contains(EmbedID(fgRet.md), "?") /\ ~Contains(EmbedID(fgRet.md), "&")

\* the same of the youtu.be form only
C25_ShortFormHasNoQuery ==
    /\ pc = "id_done" /\ Contains(idArg, "youtu.be/") =>
           ~Contains(idRet, "?") /\ ~Contains(idRet, "&")
    /\ pc = "fg_done" /\ VideoOutcome(fgRet) /\ Contains(fgNode.children[1].text, "youtu.be/") =>
           ~Contains(EmbedID(fgRet.md), "?") /\ ~Contains(EmbedID(fgRet.md), "&")

(***************************************************************************)
(* Shortcodes among other text on a line.                                  *)
(***************************************************************************)
\* the text of a line in front of its first bracket, and behind its last
TextBefore(line) == SplitN2(line, "[")[1]
TextAfter(line) == Split(line, "]")[Len(Split(line, "]"))]

\* the lines a gallery, audio or video branch has rewritten
Expanded ==
    {k \in Processed : \E b \in Range(branches[k]) : b \in {"gallery", "audio", "video"}}

\* C26: a line with a gallery, audio or video shortcode and other text
\* before or after it keeps that text: the output line starts with the text
\* before the shortcode and ends with the text after it
C26_TextAroundShortcodeKept ==
    \A k \in Expanded :
        /\ HasPrefix(splittedMd[k], TextBefore(InputLines[k]))
        /\ HasSuffix(splittedMd[k], TextAfter(InputLines[k]))

\* the integers of the ids attribute of the first gallery marker of a line
MarkerIDs(line) ==
    AtoiAll(Split(SplitN2(SplitN2(From(line, Index(line, "[gallery")), " ids=\"")[2], "\"")[1], ",")).ids

\* C27: the IDs passed to the lookup for a gallery line are the integers of
\* the ids attribute of the gallery marker of the line
C27_LookupIDsOfMarker ==
    \A k \in Processed :
        \A c \in 1..Len(lookups[k]) :
            lookups[k][c].ids = MarkerIDs(NormalizedLine(InputLines[k]))

\* the same of the lines whose only ids="..." occurrence is the marker's
C27_LookupIDsOfOnlyOccurrence ==
    \A k \in Processed :
        \A c \in 1..Len(lookups[k]) :
            Len(Split(InputLines[k], "ids=\"")) = 2 =>
                lookups[k][c].ids = MarkerIDs(NormalizedLine(InputLines[k]))

(***************************************************************************)
(* The base URL of the two stages.                                         *)
(***************************************************************************)
\* absolute URLs of media, under the configured and under the default base
SampleURLs ==
    { "https://example.com/wp-content/a.mp3",
      "http://localhost:8082/wp-content/a.mp3",
      "https://cdn.other.org/b.mp3" }

\* the calls of a function that have been entered
Entered(fn) == {p \in Calls : calls[p].fn = fn}

\* C29: ConvertHTMLToMarkdown and PostProcessMarkdownLines use the same base
\* URL, also when WP_BASE_URL is not set: an absolute URL has the same
\* display path in both
C29_SameBaseInBothStages ==
    \A p \in Entered("ConvertHTMLToMarkdown"), q \in Entered("PostProcessMarkdownLines") :
        /\ calls[p].baseURL = calls[q].baseURL
        /\ \A u \in SampleURLs : TrimPrefix(u, calls[p].baseURL) = TrimPrefix(u, calls[q].baseURL)

\* the same when WP_BASE_URL is set
C29_SameBaseWhenSet ==
    env # "" =>
        \A p \in Entered("ConvertHTMLToMarkdown"), q \in Entered("PostProcessMarkdownLines") :
            /\ calls[p].baseURL = calls[q].baseURL
            /\ \A u \in SampleURLs : TrimPrefix(u, calls[p].baseURL) = TrimPrefix(u, calls[q].baseURL)

(***************************************************************************)
(* processContent: the returned list and the files written.                *)
(***************************************************************************)
\* the items whose iteration is over
Finished == 1..Len(pcOutcome)

\* C30: every URL of the returned list belongs to a document whose .mdx file
\* was written: a document whose directory creation or file write failed
\* contributes no URL, and the list is the URLs of the documents, grouped
\* per document in processing order
C30_URLsOnlyOfWrittenDocuments ==
    /\ \A i \in Finished : pcOutcome[i] # "written" => pcAdded[i] = <<>>
    /\ pc = "pc_done" => pcRet = Flatten(pcAdded)

\* the grouping alone: the list is the URLs the iterations appended, in
\* processing order
C30_GroupedInOrder ==
    pc = "pc_done" => pcRet = Flatten(pcAdded)

=============================================================================
